---------------------------- MODULE Spec2Model ----------------------------
(***************************************************************************)
(* A model of the solar-eclipse sequencing pipeline:                       *)
(*   sem/sequence.py, sem/action.py, sem/strconv.py  - Sequence and CSV    *)
(*   sequencer.py                                    - realtime sequencer  *)
(*   sem/script.py, sem/semscript.py                 - script compiler     *)
(*   sem/event.py                                    - event table         *)
(* Each component has its own specification (SpecSeq, SpecExec, SpecParse, *)
(* SpecGen, SpecEvt) over its own group of variables; the variables of the *)
(* other components are held at their idle values.                         *)
(***************************************************************************)
EXTENDS Integers, Sequences, FiniteSets, TLC

VARIABLES
    \* ---- Sequence (sem/sequence.py)
    actions,      \* Sequence.actions
    csvfile,      \* the rows of the CSV text last written (<<>>: nothing written)
    seqInput,     \* history: the list handed to the Sequence constructor
    seqBefore,    \* history: Sequence.actions when write_csv ran last
    seqPhase,     \* "new" | "built" | "written" | "read"
    \* ---- Sequencer (sequencer.py)
    clock,        \* the virtual clock: real clock + time_offset
    execActions,  \* Sequencer.actions, the filtered list
    idx,          \* position of the control loop in execActions (1-based)
    loopPc,       \* "idle" | "eval" | "sleep" | "done"
    wakeAt,       \* clock value at which the pending time.sleep returns
    submitted,    \* indices handed to the executor, in submission order
    evalLog,      \* history: per evaluated index, what the loop saw and did
    \* ---- the executor's threads and the camera (sequencer.py, camera.py)
    started,      \* indices whose handler a worker thread took, in that order
    handlerPc,    \* per started index, the call its handler is about to make
    excepted,     \* indices whose handler went through its except clause
    camera,       \* the camera: values selected in its config, values applied
    captures,     \* history: per capture, its action and the values in force
    \* ---- EventParser (sem/event.py)
    evFile,       \* the lines of the timing file
    evPos,        \* number of lines consumed
    evLocals,     \* the locals of parse: events, prev_mag, pre_mags, ...
    evStatus,     \* "idle" | "reading" | "raised" | "done"
    \* ---- the arguments of the sequencer (sequencer.py)
    no_sound,     \* args.no_sound
    no_camera,    \* args.no_camera
    \* ---- Script.generate_sequence (sem/script.py)
    scriptCommands, \* Script.commands of the script being expanded
    commandI,     \* position of `for command in self.commands`
    scriptActions, \* the local `actions` list of generate_sequence
    scriptPc,     \* "idle" | "for" | "loop" | "raised" | "done"
    \* ---- ScriptParser (sem/script.py)
    commands,     \* Script.commands, the top-level command list
    stack,        \* ScriptParser.stack: positions (in commands) of open loops
    status,       \* "idle" | "parsing" | "failed" | "done"
    raised,       \* the exception that ended the parse ("none": none)
    lineNo,       \* number of lines consumed
    lastLine,     \* history: the line consumed last
    prevParse,    \* history: commands and stack before the last line
    \* ---- loop expansion (sem/semscript.py)
    loop,         \* the loop command being expanded
    value,        \* the local `value` of generate_actions (a double)
    iterI,        \* the local `i` of ForIterLoop.generate_actions
    childI,       \* position of the inner `for c in self.commands`
    genOut,       \* the local `actions` list being accumulated
    genPc,        \* "idle" | "test" | "body" | "advance" | "done" | "raised"
    \* ---- EventManager (sem/event.py)
    evm,          \* the EventManager: events, pre_magnitudes, post_magnitudes
    query,        \* history: the event name resolved last
    answer        \* result of the last get_time call

seqVars   == <<actions, csvfile, seqInput, seqBefore, seqPhase>>
execVars  == <<clock, execActions, idx, loopPc, wakeAt, submitted, evalLog>>
parseVars == <<commands, stack, status, raised, lineNo, lastLine, prevParse>>
genVars   == <<loop, value, iterI, childI, genOut, genPc>>
evtVars   == <<evm, query, answer>>
workVars  == <<started, handlerPc, excepted, camera, captures>>
magVars   == <<evFile, evPos, evLocals, evStatus>>
scriptVars == <<scriptCommands, commandI, scriptActions, scriptPc>>
argVars   == <<no_sound, no_camera>>
vars      == <<seqVars, execVars, parseVars, genVars, evtVars, workVars,
               magVars, scriptVars, argVars>>
\* what a step of one component leaves alone
notSeq    == <<execVars, parseVars, genVars, evtVars, workVars,
               magVars, scriptVars, argVars>>
notExec   == <<seqVars, parseVars, genVars, evtVars, workVars,
               magVars, scriptVars, argVars>>
notParse  == <<seqVars, execVars, genVars, evtVars, workVars,
               magVars, scriptVars, argVars>>
notGen    == <<seqVars, execVars, parseVars, evtVars, workVars,
               magVars, scriptVars, argVars>>
notEvt    == <<seqVars, execVars, parseVars, genVars, workVars,
               magVars, scriptVars, argVars>>

Max(S) == CHOOSE x \in S : \A y \in S : y <= x
Min(S) == CHOOSE x \in S : \A y \in S : x <= y

(***************************************************************************)
(* Bounds of the model.                                                    *)
(***************************************************************************)
MaxLen == 3          \* longest action list handed to Sequence / Sequencer

(***************************************************************************)
(* Idle values of each component's variables.                              *)
(***************************************************************************)
\* Python's None
None == [kind |-> "None"]
NoLine == [line |-> "none"]

SeqIdle ==
    /\ actions = <<>> /\ csvfile = <<>> /\ seqInput = <<>>
    /\ seqBefore = <<>> /\ seqPhase = "new"

ExecIdle ==
    /\ clock = 0 /\ execActions = <<>> /\ idx = 1 /\ loopPc = "idle"
    /\ wakeAt = 0 /\ submitted = <<>> /\ evalLog = <<>>

\* no thread has started, and the camera holds its own values (0: those of
\* no action)
WorkIdle ==
    /\ started = <<>> /\ handlerPc = <<>> /\ excepted = {}
    /\ camera = [selected |-> [aperture |-> 0, iso |-> 0, shutter |-> 0],
                 applied |-> [aperture |-> 0, iso |-> 0, shutter |-> 0]]
    /\ captures = <<>>

MagIdle ==
    /\ evFile = <<>> /\ evPos = 0 /\ evLocals = <<>> /\ evStatus = "idle"

ScriptIdle ==
    /\ scriptCommands = <<>> /\ commandI = 1 /\ scriptActions = <<>>
    /\ scriptPc = "idle"

ArgIdle == no_sound = FALSE /\ no_camera = FALSE

ParseIdle ==
    /\ commands = <<>> /\ stack = <<>> /\ status = "idle" /\ raised = "none"
    /\ lineNo = 0
    /\ lastLine = NoLine /\ prevParse = [commands |-> <<>>, stack |-> <<>>]

GenIdle ==
    /\ loop = [type |-> "none"] /\ value = [s |-> 1, m |-> <<>>, e |-> 0]
    /\ iterI = 0 /\ childI = 1 /\ genOut = <<>> /\ genPc = "idle"

NoEvents == [events |-> <<>>, pre_magnitudes |-> <<>>,
             post_magnitudes |-> <<>>, max_magnitude |-> <<>>]

EvtIdle ==
    /\ evm = NoEvents /\ query = <<>> /\ answer = [kind |-> "idle"]

(***************************************************************************)
(* datetime values.  A datetime is the record of its fields, as Python's   *)
(* datetime is; `date` stands for the (year, month, day) triple as a day   *)
(* ordinal.  Comparison is field by field, most significant first.         *)
(***************************************************************************)
DT(d, h, mi, s, u) ==
    [date |-> d, hour |-> h, minute |-> mi, second |-> s, micro |-> u]

DTKey(t) == <<t.date, t.hour, t.minute, t.second, t.micro>>

RECURSIVE LexLt(_, _)
LexLt(a, b) ==
    IF a = <<>> \/ b = <<>> THEN FALSE
    ELSE IF Head(a) # Head(b) THEN Head(a) < Head(b)
    ELSE LexLt(Tail(a), Tail(b))

\* datetime.__lt__
TimeLt(t1, t2) == LexLt(DTKey(t1), DTKey(t2))

\* Action.__lt__: return self.time < other.time
Action_lt(a, b) == TimeLt(a.time, b.time)

(***************************************************************************)
(* Field values.  A field of an Action is either a number (float or int,   *)
(* as TakePic.__init__ makes them from the script) or a text (as read_csv  *)
(* takes them from the file).  `v` names the value, `num` tells which.     *)
(***************************************************************************)
Num(x) == [num |-> TRUE, v |-> x]
Txt(x) == [num |-> FALSE, v |-> x]
\* str(x) as csv.DictWriter applies it to a value that is not a string; the
\* text of a number is its decimal literal, the text of a text is itself.
Str(x) == [num |-> FALSE, v |-> x.v]
Blank == Txt("")

ActionTakePic(time, shutter, aperture, iso, comment) ==
    [kind |-> "PICT", time |-> time, shutter |-> shutter,
     aperture |-> aperture, iso |-> iso, comment |-> comment]

ActionPlay(time, soundfile, comment) ==
    [kind |-> "PLAY", time |-> time, soundfile |-> soundfile,
     comment |-> comment]


(***************************************************************************)
(* sem/strconv.py: the text of a date and of a time, and their parsing.    *)
(* A CSV cell is a record: Lit(s) is the literal text s, a "ymd" cell the  *)
(* text Y/M/D of a date, an "hms" cell the text H:M:S.f of a time with the *)
(* digits f that follow the point.                                         *)
(***************************************************************************)
Lit(s) == [tag |-> "lit", v |-> s]

TenthMicros == 100000     \* int(tenths) * 100_000

\* date.strftime('%Y/%m/%d')
format_date(t) == [tag |-> "ymd", d |-> t.date]

\* format_time with a fault: the tenth nearest to the time, not the one below
format_time_rounding(t) ==
    [tag |-> "hms", hh |-> t.hour, mm |-> t.minute, ss |-> t.second,
     f |-> (t.micro + TenthMicros \div 2) \div TenthMicros]

\* time.strftime('%H:%M:%S.%f')[:-5]: %f is the six digits of the
\* microseconds; dropping the last five characters keeps the first digit.
format_time(t) ==
    [tag |-> "hms", hh |-> t.hour, mm |-> t.minute, ss |-> t.second,
     f |-> t.micro \div TenthMicros]

\* parse_date_time: any cell that is not Y/M/D resp. H:M:S.f makes int() or
\* the unpacking raise ValueError; so does a microsecond datetime() refuses.
parse_date_time(date_str, time_str) ==
    IF date_str.tag = "ymd" /\ time_str.tag = "hms"
       /\ time_str.f * TenthMicros < 1000000
    THEN [ok |-> TRUE,
          val |-> DT(date_str.d, time_str.hh, time_str.mm, time_str.ss,
                     time_str.f * TenthMicros)]
    ELSE [ok |-> FALSE]

(***************************************************************************)
(* sem/action.py: as_dict, and the row csv.DictWriter writes for it: a key *)
(* the dict lacks is written as the empty text, every value through str(). *)
(***************************************************************************)
ActionTakePic_as_dict(a) ==
    [date |-> format_date(a.time), time_utc |-> format_time(a.time),
     action |-> Lit("PICT"), shutter_speed |-> Str(a.shutter),
     aperture |-> Str(a.aperture), iso |-> Str(a.iso), file |-> Blank,
     comment |-> Str(a.comment)]

ActionPlay_as_dict(a) ==
    [date |-> format_date(a.time), time_utc |-> format_time(a.time),
     action |-> Lit("PLAY"), shutter_speed |-> Blank, aperture |-> Blank,
     iso |-> Blank, file |-> Str(a.soundfile), comment |-> Str(a.comment)]

as_dict(a) ==
    IF a.kind = "PICT" THEN ActionTakePic_as_dict(a) ELSE ActionPlay_as_dict(a)

\* writer.writeheader(): the field names as a row
HeaderRow ==
    [date |-> Lit("date"), time_utc |-> Lit("time_utc"),
     action |-> Lit("action"), shutter_speed |-> Lit("shutter_speed"),
     aperture |-> Lit("aperture"), iso |-> Lit("iso"), file |-> Lit("file"),
     comment |-> Lit("comment")]

(***************************************************************************)
(* sem/sequence.py                                                         *)
(***************************************************************************)
\* Insert x after every element that is not greater than it: the place a
\* stable sort that compares with __lt__ alone gives it.
RECURSIVE InsertStable(_, _)
InsertStable(x, s) ==
    IF s = <<>> THEN <<x>>
    ELSE IF Action_lt(x, Head(s)) THEN <<x>> \o s
    ELSE <<Head(s)>> \o InsertStable(x, Tail(s))

\* sorted with a fault: x goes before the elements of its own time
RECURSIVE InsertBeforeEqual(_, _)
InsertBeforeEqual(x, s) ==
    IF s = <<>> THEN <<x>>
    ELSE IF ~Action_lt(Head(s), x) THEN <<x>> \o s
    ELSE <<Head(s)>> \o InsertBeforeEqual(x, Tail(s))

RECURSIVE sorted_unstable(_)
sorted_unstable(s) ==
    IF s = <<>> THEN <<>>
    ELSE InsertBeforeEqual(s[Len(s)], sorted_unstable(SubSeq(s, 1, Len(s) - 1)))

\* list(sorted(self.actions)): Python's sort is stable and uses __lt__
RECURSIVE sorted(_)
sorted(s) ==
    IF s = <<>> THEN <<>>
    ELSE InsertStable(s[Len(s)], sorted(SubSeq(s, 1, Len(s) - 1)))

\* Sequence._make_action: None for the header row and for a kind that is
\* neither PICT nor PLAY; parse_date_time's ValueError is not caught.
Sequence_make_action(csv_row) ==
    IF csv_row.date = Lit("date") THEN [raised |-> FALSE, none |-> TRUE]
    ELSE LET time == parse_date_time(csv_row.date, csv_row.time_utc) IN
         IF ~time.ok THEN [raised |-> TRUE, none |-> TRUE]
         ELSE IF csv_row.action = Lit("PICT")
              THEN [raised |-> FALSE, none |-> FALSE,
                    action |-> ActionTakePic(time.val, csv_row.shutter_speed,
                                  csv_row.aperture, csv_row.iso,
                                  csv_row.comment)]
         ELSE IF csv_row.action = Lit("PLAY")
              THEN [raised |-> FALSE, none |-> FALSE,
                    action |-> ActionPlay(time.val, csv_row.file,
                                          csv_row.comment)]
         ELSE [raised |-> FALSE, none |-> TRUE]

\* the loop of read_csv over the rows, from the list `acc` built so far;
\* an exception of _make_action leaves the loop with what was appended.
RECURSIVE ReadRows(_, _)
ReadRows(rows, acc) ==
    IF rows = <<>> THEN [raised |-> FALSE, actions |-> acc]
    ELSE LET r == Sequence_make_action(Head(rows)) IN
         IF r.raised THEN [raised |-> TRUE, actions |-> acc]
         ELSE ReadRows(Tail(rows),
                       IF r.none THEN acc ELSE Append(acc, r.action))

\* the rows write_csv emits: the header, then one row per action
CsvRows(acts) == <<HeaderRow>> \o [i \in 1..Len(acts) |-> as_dict(acts[i])]

\* The actions a Sequence may be built from.
SeqTimes ==
    {DT(1, 0, 0, 0, 99999), DT(1, 0, 0, 0, 100000), DT(1, 0, 59, 59, 950000)}

ActionPool ==
    {ActionTakePic(t, Num("0.001"), Num("8.0"), Num("100"), Txt("corona")) :
        t \in SeqTimes}
    \cup {ActionTakePic(t, Txt("1/1000"), Txt("f/8"), Txt("100"), Txt("beads")) :
        t \in SeqTimes}
    \cup {ActionPlay(t, Txt("c2.mp3"), Txt("contact")) : t \in SeqTimes}

SeqsUpTo(S, n) == UNION {[1..k -> S] : k \in 0..n}

\* Sequence.__init__(actions)
Sequence_init(in) ==
    /\ seqPhase = "new"
    /\ actions' = sorted(in)
    /\ seqInput' = in
    /\ seqPhase' = "built"
    /\ UNCHANGED <<csvfile, seqBefore, notSeq>>

\* Sequence.write_csv(file)
Sequence_write_csv ==
    /\ seqPhase \in {"built", "read"}
    /\ csvfile' = CsvRows(actions)
    /\ seqBefore' = actions
    /\ seqPhase' = "written"
    /\ UNCHANGED <<actions, seqInput, notSeq>>

\* Sequence.read_csv(file), on the file written last
Sequence_read_csv ==
    /\ seqPhase = "written"
    /\ actions' = ReadRows(csvfile, <<>>).actions
    /\ seqPhase' = IF ReadRows(csvfile, <<>>).raised THEN "raised" ELSE "read"
    /\ UNCHANGED <<csvfile, seqInput, seqBefore, notSeq>>

InitSeq == SeqIdle /\ ExecIdle /\ ParseIdle /\ GenIdle /\ EvtIdle /\ WorkIdle /\ MagIdle /\ ScriptIdle /\ ArgIdle

NextSeq ==
    \/ \E in \in SeqsUpTo(ActionPool, MaxLen) : Sequence_init(in)
    \/ Sequence_write_csv
    \/ Sequence_read_csv

SpecSeq == InitSeq /\ [][NextSeq]_vars

(***************************************************************************)
(* C1.  For every list of Actions handed to the Sequence constructor, the  *)
(* resulting .actions is a permutation of the list, its times never        *)
(* decrease, and Actions of equal time keep the order they had in the      *)
(* list.                                                                   *)
(***************************************************************************)
AtTime(s, t) == SelectSeq(s, LAMBDA a : a.time = t)
Count(s, x) == Cardinality({i \in 1..Len(s) : s[i] = x})
IsPermutation(s, t) ==
    /\ Len(s) = Len(t)
    /\ \A i \in 1..Len(s) : Count(s, s[i]) = Count(t, s[i])
NonDecreasing(s) ==
    \A i, j \in 1..Len(s) : i < j => ~TimeLt(s[j].time, s[i].time)

C1_SortedStablePermutation ==
    seqPhase = "built" =>
        /\ IsPermutation(actions, seqInput)
        /\ NonDecreasing(actions)
        /\ \A t \in SeqTimes : AtTime(actions, t) = AtTime(seqInput, t)

\* a list out of order in which two different Actions share a time
C1_Witness ==
    /\ seqPhase = "built"
    /\ ~NonDecreasing(seqInput)
    /\ \E i, j \in 1..Len(seqInput) :
          /\ i < j
          /\ seqInput[i].time = seqInput[j].time
          /\ seqInput[i] # seqInput[j]

(***************************************************************************)
(* C2.  write_csv followed by read_csv gives as many Actions, in the same  *)
(* order and of the same kinds, each with the time of the original cut     *)
(* down (never rounded up) to a whole tenth of a second.  As amended: the  *)
(* shutter, aperture, iso, sound file and comment read back are the text   *)
(* (str) of the original's values; a number comes back as its text.        *)
(***************************************************************************)
Truncated(t) == [t EXCEPT !.micro = t.micro - (t.micro % TenthMicros)]

SameShape(a, b) ==
    /\ a.kind = b.kind
    /\ a.time = Truncated(b.time)

C2_RoundTripText ==
    seqPhase = "read" =>
        /\ Len(actions) = Len(seqBefore)
        /\ \A i \in 1..Len(seqBefore) :
              LET a == actions[i]
                  b == seqBefore[i] IN
              /\ SameShape(a, b)
              /\ a.comment = Str(b.comment)
              /\ a.kind = "PICT" =>
                    /\ a.shutter = Str(b.shutter)
                    /\ a.aperture = Str(b.aperture)
                    /\ a.iso = Str(b.iso)
              /\ a.kind = "PLAY" => a.soundfile = Str(b.soundfile)

\* a round trip of both kinds in which a time lost its sub-tenth part
C2_Witness ==
    /\ seqPhase = "read"
    /\ \E i, j \in 1..Len(seqBefore) :
          /\ seqBefore[i].kind = "PICT" /\ seqBefore[j].kind = "PLAY"
          /\ seqBefore[i].shutter.num
          /\ seqBefore[i].time.micro % TenthMicros # 0
          /\ actions[i].time # seqBefore[i].time

\* C2 as stated: the values read back are the original values themselves
C2_RoundTripSameValues ==
    seqPhase = "read" =>
        /\ Len(actions) = Len(seqBefore)
        /\ \A i \in 1..Len(seqBefore) :
              LET a == actions[i]
                  b == seqBefore[i] IN
              /\ SameShape(a, b)
              /\ a.comment = b.comment
              /\ a.kind = "PICT" =>
                    /\ a.shutter = b.shutter
                    /\ a.aperture = b.aperture
                    /\ a.iso = b.iso
              /\ a.kind = "PLAY" => a.soundfile = b.soundfile

(***************************************************************************)
(* read_csv of a file that write_csv did not produce: rows in any order,   *)
(* header rows anywhere, rows of an unknown kind, rows whose date is not   *)
(* Y/M/D.  The Sequence that reads is new or holds one action.             *)
(***************************************************************************)
MaxRows == 3         \* most rows of a file

RowTimes == {DT(1, 0, 0, 0, 100000), DT(1, 0, 59, 59, 900000)}

GoodRows ==
    {as_dict(ActionTakePic(t, Txt("1/1000"), Txt("f/8"), Txt("100"),
                           Txt("beads"))) : t \in RowTimes}
    \cup {as_dict(ActionPlay(DT(1, 0, 0, 0, 100000), Txt("c2.mp3"),
                             Txt("contact")))}

RowPool ==
    GoodRows
    \cup {HeaderRow}
    \cup {[as_dict(ActionPlay(DT(1, 0, 0, 0, 100000), Txt("c2.mp3"),
                              Txt("contact")))
              EXCEPT !.action = Lit("NOTE")]}
    \cup {[as_dict(ActionPlay(DT(1, 0, 0, 0, 100000), Txt("c2.mp3"),
                              Txt("contact")))
              EXCEPT !.action = Lit("NOTE"), !.date = Lit("")]}
    \cup {[as_dict(ActionTakePic(DT(1, 0, 59, 59, 900000), Txt("1/1000"),
                                 Txt("f/8"), Txt("100"), Txt("beads")))
              EXCEPT !.date = Lit("2024-04-08")]}

\* Sequence.read_csv(file) of the file `file`
Sequence_read_csv_file(file) ==
    /\ seqPhase \in {"new", "built"}
    /\ csvfile' = file
    /\ seqBefore' = actions
    /\ actions' = ReadRows(file, <<>>).actions
    /\ seqPhase' = IF ReadRows(file, <<>>).raised THEN "raised" ELSE "loaded"
    /\ UNCHANGED <<seqInput, notSeq>>

InitCsv == InitSeq

NextCsv ==
    \/ \E in \in SeqsUpTo(ActionPool, 1) : Sequence_init(in)
    \/ \E file \in SeqsUpTo(RowPool, MaxRows) : Sequence_read_csv_file(file)

SpecCsv == InitCsv /\ [][NextCsv]_vars

(***************************************************************************)
(* C15.  A Sequence's action list is time-sorted in every state reachable  *)
(* through its two mutators: after construction from any list and after    *)
(* read_csv of any well-formed file, whatever the order of its rows,       *)
(* .actions is in non-decreasing time order.                               *)
(***************************************************************************)
C15_AlwaysSorted ==
    seqPhase \in {"built", "loaded"} => NonDecreasing(actions)

(***************************************************************************)
(* C16.  When read_csv meets a malformed data row (one whose date or time  *)
(* cannot be parsed), only that row is dropped: reading continues, and     *)
(* every well-formed row before and after it is in the resulting list.     *)
(***************************************************************************)
IsHeader(row) == row.date = Lit("date")

Parses(row) == parse_date_time(row.date, row.time_utc).ok

KnownKind(row) == row.action \in {Lit("PICT"), Lit("PLAY")}

\* the Actions of the rows of `file` that are well-formed data rows
ActionsOf(file) ==
    LET good == SelectSeq(file, LAMBDA r :
                    ~IsHeader(r) /\ Parses(r) /\ KnownKind(r)) IN
    [k \in 1..Len(good) |-> Sequence_make_action(good[k]).action]

C16_MalformedRowDropped ==
    (/\ seqPhase \in {"loaded", "raised"}
     /\ \E k \in 1..Len(csvfile) :
           ~IsHeader(csvfile[k]) /\ ~Parses(csvfile[k]) /\ KnownKind(csvfile[k]))
    => seqPhase = "loaded" /\ actions = ActionsOf(csvfile)

(***************************************************************************)
(* C20.  read_csv skips a literal header row wherever it occurs and skips, *)
(* without raising, every data row whose action-kind tag is neither PICT   *)
(* nor PLAY; every remaining row becomes exactly one Action of the         *)
(* matching kind, in file order, and the actions held before the call are  *)
(* discarded.  (The remaining rows are taken to be well-formed.)           *)
(***************************************************************************)
C20_SkipsHeaderAndUnknownKind ==
    (/\ seqPhase \in {"loaded", "raised"}
     /\ \A k \in 1..Len(csvfile) :
           (~IsHeader(csvfile[k]) /\ KnownKind(csvfile[k])) => Parses(csvfile[k]))
    => /\ seqPhase = "loaded"
       /\ actions = ActionsOf(csvfile)
       /\ \A k \in 1..Len(actions) :
             actions[k].kind \in {"PICT", "PLAY"}

(***************************************************************************)
(* sequencer.py: the control loop of Sequencer.execute.  Time is counted   *)
(* in ticks; `clock` is what _current_time() returns, the real clock plus  *)
(* time_offset.  The clock advances on its own between any two steps of    *)
(* the loop, and time.sleep returns no earlier than asked.                 *)
(***************************************************************************)
MaxExecLen == 3      \* longest list of the sequencer
MaxTime == 2         \* latest scheduled time of an action, in ticks
MaxClock == 4        \* the clock is observed up to this tick

ExecPool == [kind : {"PICT", "PLAY"}, time : 0..MaxTime]

LastOf(s) == s[Len(s)]

\* time passes
Tick ==
    /\ loopPc \in {"eval", "sleep"}
    /\ clock < MaxClock
    /\ clock' = clock + 1
    /\ UNCHANGED <<execActions, idx, loopPc, wakeAt, submitted, evalLog,
                   notExec>>

\* Sequencer._execute_action: self.executor.submit(handler, action)
Sequencer_execute_action(i) ==
    IF execActions[i].kind \in {"PICT", "PLAY"}
    THEN Append(submitted, i) ELSE submitted

\* execute_eval with a fault: an action that is due right now is skipped too
execute_eval_skipping_due ==
    /\ loopPc = "eval"
    /\ idx <= Len(execActions)
    /\ LET now == clock
           delay == execActions[idx].time - now IN
       IF delay <= 0
       THEN /\ evalLog' = Append(evalLog, [i |-> idx, now |-> now,
                                           delay |-> delay, did |-> "skip"])
            /\ idx' = idx + 1
            /\ UNCHANGED <<loopPc, wakeAt, submitted>>
       ELSE /\ evalLog' = Append(evalLog, [i |-> idx, now |-> now,
                                           delay |-> delay, did |-> "sleep"])
            /\ loopPc' = "sleep"
            /\ wakeAt' = now + delay
            /\ UNCHANGED <<idx, submitted>>
    /\ UNCHANGED <<clock, execActions, notExec>>

\* execute_eval with a fault: the loop first waits for the handlers it
\* submitted (as future.result() would)
execute_eval_joining ==
    /\ \A k \in 1..Len(submitted) : handlerPc[submitted[k]] = "done"
    /\ loopPc = "eval"
    /\ idx <= Len(execActions)
    /\ LET now == clock
           delay == execActions[idx].time - now IN
       IF delay < 0
       THEN /\ evalLog' = Append(evalLog, [i |-> idx, now |-> now,
                                           delay |-> delay, did |-> "skip"])
            /\ idx' = idx + 1
            /\ UNCHANGED <<loopPc, wakeAt, submitted>>
       ELSE IF delay > 0
       THEN /\ evalLog' = Append(evalLog, [i |-> idx, now |-> now,
                                           delay |-> delay, did |-> "sleep"])
            /\ loopPc' = "sleep"
            /\ wakeAt' = now + delay
            /\ UNCHANGED <<idx, submitted>>
       ELSE /\ evalLog' = Append(evalLog, [i |-> idx, now |-> now,
                                           delay |-> delay, did |-> "run"])
            /\ submitted' = Sequencer_execute_action(idx)
            /\ idx' = idx + 1
            /\ UNCHANGED <<loopPc, wakeAt>>
    /\ UNCHANGED <<clock, execActions, notExec>>

\* execute, one pass of the for loop up to the sleep: read the clock,
\* compute the delay, and skip (continue), sleep, or dispatch at once.
execute_eval ==
    /\ loopPc = "eval"
    /\ idx <= Len(execActions)
    /\ LET now == clock
           delay == execActions[idx].time - now IN
       IF delay < 0
       THEN /\ evalLog' = Append(evalLog, [i |-> idx, now |-> now,
                                           delay |-> delay, did |-> "skip"])
            /\ idx' = idx + 1
            /\ UNCHANGED <<loopPc, wakeAt, submitted>>
       ELSE IF delay > 0
       THEN /\ evalLog' = Append(evalLog, [i |-> idx, now |-> now,
                                           delay |-> delay, did |-> "sleep"])
            /\ loopPc' = "sleep"
            /\ wakeAt' = now + delay
            /\ UNCHANGED <<idx, submitted>>
       ELSE /\ evalLog' = Append(evalLog, [i |-> idx, now |-> now,
                                           delay |-> delay, did |-> "run"])
            /\ submitted' = Sequencer_execute_action(idx)
            /\ idx' = idx + 1
            /\ UNCHANGED <<loopPc, wakeAt>>
    /\ UNCHANGED <<clock, execActions, notExec>>

\* execute_wake with a fault: time.sleep may return before the delay is over
execute_wake_early ==
    /\ loopPc = "sleep"
    /\ submitted' = Sequencer_execute_action(idx)
    /\ idx' = idx + 1
    /\ loopPc' = "eval"
    /\ UNCHANGED <<clock, execActions, wakeAt, evalLog, notExec>>

\* execute, after time.sleep(delay_sec) returned: self._execute_action(action)
execute_wake ==
    /\ loopPc = "sleep"
    /\ clock >= wakeAt
    /\ submitted' = Sequencer_execute_action(idx)
    /\ idx' = idx + 1
    /\ loopPc' = "eval"
    /\ UNCHANGED <<clock, execActions, wakeAt, evalLog, notExec>>

\* execute, the for loop is exhausted
execute_return ==
    /\ loopPc = "eval"
    /\ idx > Len(execActions)
    /\ loopPc' = "done"
    /\ UNCHANGED <<clock, execActions, idx, wakeAt, submitted, evalLog,
                   notExec>>

InitExec ==
    /\ SeqIdle /\ ParseIdle /\ GenIdle /\ EvtIdle /\ WorkIdle /\ MagIdle /\ ScriptIdle /\ ArgIdle
    /\ execActions \in SeqsUpTo(ExecPool, MaxExecLen)
    /\ clock \in 0..MaxTime + 1
    /\ idx = 1 /\ loopPc = "eval" /\ wakeAt = 0
    /\ submitted = <<>> /\ evalLog = <<>>

NextExec ==
    \/ Tick
    \/ execute_eval
    \/ execute_wake
    \/ execute_return

SpecExec == InitExec /\ [][NextExec]_vars

(***************************************************************************)
(* C3.  An action whose scheduled time is strictly earlier than the        *)
(* virtual clock when the control loop reaches it is never handed to the   *)
(* dispatcher, and the loop goes on to the next action without sleeping;   *)
(* an action whose delay is exactly zero is not skipped.                   *)
(***************************************************************************)
Submitted(i) == \E k \in 1..Len(submitted) : submitted[k] = i

C3_SkipRule ==
    /\ \A k \in 1..Len(evalLog) :
          LET e == evalLog[k] IN
          /\ execActions[e.i].time < e.now =>
                e.did = "skip" /\ ~Submitted(e.i)
          /\ execActions[e.i].time = e.now =>
                e.did = "run" /\ Submitted(e.i)
    /\ (evalLog # <<>> /\ LastOf(evalLog).did = "skip") =>
          /\ loopPc # "sleep"
          /\ idx = LastOf(evalLog).i + 1
    /\ loopPc = "sleep" =>
          /\ evalLog # <<>>
          /\ LastOf(evalLog).did = "sleep"
          /\ LastOf(evalLog).i = idx

\* a late action was skipped, and the one after it, due at once, was run
C3_Witness ==
    /\ loopPc = "done"
    /\ \E k \in 1..Len(evalLog) - 1 :
          /\ evalLog[k].did = "skip"
          /\ evalLog[k].delay < 0
          /\ evalLog[k + 1].did = "run"
          /\ evalLog[k + 1].now = evalLog[k].now
          /\ Submitted(evalLog[k + 1].i)

(***************************************************************************)
(* C25.  The control loop never hands an action to the dispatcher before   *)
(* its scheduled instant: in the step that hands an action over, the       *)
(* virtual clock is at or past that action's time, the action is the one   *)
(* the loop is at, and every action handed over before it comes earlier in *)
(* the filtered list.                                                      *)
(***************************************************************************)
C25_NeverBeforeItsTime ==
    [][submitted' # submitted =>
          /\ idx <= Len(execActions)
          /\ submitted' = Append(submitted, idx)
          /\ clock >= execActions[idx].time
          /\ \A k \in 1..Len(submitted) : submitted[k] < idx]_vars

\* two actions were handed over, the second after a sleep that lasted
\* longer than asked
C25_Witness ==
    /\ Len(submitted) = 2 /\ evalLog # <<>>
    /\ LastOf(evalLog).did = "sleep" /\ LastOf(evalLog).i = submitted[2]
    /\ clock > execActions[submitted[2]].time

(***************************************************************************)
(* C29.  For a time-sorted action list in which every action's time is at  *)
(* or after the virtual clock at the start of execute, the control loop    *)
(* hands every action to the dispatcher exactly once and then terminates:  *)
(* no action is skipped, also when several actions share the same time.    *)
(***************************************************************************)
TimeSorted(list) ==
    \A i \in 1..Len(list) - 1 : list[i].time <= list[i + 1].time

\* the clock when execute was entered: what the first evaluation read, time
\* passing before it included
NoneLateAtStart ==
    \A i \in DOMAIN execActions : execActions[i].time >= evalLog[1].now

C29_EveryActionDispatchedOnce ==
    /\ (loopPc = "done" /\ evalLog # <<>> /\ TimeSorted(execActions)
        /\ NoneLateAtStart)
       => submitted = [i \in DOMAIN execActions |-> i]
    /\ \A j, k \in DOMAIN submitted : submitted[j] = submitted[k] => j = k

(***************************************************************************)
(* sequencer.py: the executor and the handlers.  self.executor =           *)
(* ThreadPoolExecutor() runs the submitted handlers on at most max_workers *)
(* threads; a work item waits in the executor's queue, first in first out, *)
(* until a thread is free.  A handler makes its calls one after the other; *)
(* each call is one step, and the steps of different threads interleave.   *)
(*                                                                         *)
(* The exposure values of an action are written as the index of the action *)
(* in the list: the camera holds, for each of aperture, iso and shutter,   *)
(* the index of the action whose value was selected or applied last.       *)
(***************************************************************************)
max_workers == 5     \* ThreadPoolExecutor(): min(32, os.cpu_count() + 4)
MaxRunLen == 2       \* longest list run with both kinds of handler
MaxPoolLen == 6      \* longest list run with --no-camera

notWork == <<seqVars, execVars, parseVars, genVars, evtVars, magVars,
            scriptVars, argVars>>

Started(i) == \E k \in 1..Len(started) : started[k] = i

\* the executor's work queue: submitted, not yet taken by a thread
Queue == SelectSeq(submitted, LAMBDA i : ~Started(i))

\* the handlers that occupy a thread
Running == {i \in DOMAIN handlerPc : handlerPc[i] \notin {"none", "done"}}

\* _execute_pict: the calls it makes on the camera, in order
PictCalls == <<"set_aperture", "set_iso", "set_shutter_speed",
               "apply_settings", "trigger_capture_and_wait">>

CallAfter(call) ==
    IF call = PictCalls[Len(PictCalls)] THEN "done"
    ELSE PictCalls[1 + CHOOSE k \in 1..Len(PictCalls) : PictCalls[k] = call]

\* Camera(model, port): the camera as _select_camera opens it
Camera == [selected |-> [aperture |-> 0, iso |-> 0, shutter |-> 0],
           applied |-> [aperture |-> 0, iso |-> 0, shutter |-> 0]]

\* Camera.set_aperture / set_iso / set_shutter_speed: select, do not apply
Camera_set(cam, field, v) == [cam EXCEPT !.selected[field] = v]

\* Camera.apply_settings: self.gp_camera.set_config(gp_widget)
Camera_apply_settings(cam) == [cam EXCEPT !.applied = cam.selected]

\* the camera after the call `call` made for action i
Camera_call(cam, call, i) ==
    IF call = "set_aperture" THEN Camera_set(cam, "aperture", i)
    ELSE IF call = "set_iso" THEN Camera_set(cam, "iso", i)
    ELSE IF call = "set_shutter_speed" THEN Camera_set(cam, "shutter", i)
    ELSE IF call = "apply_settings" THEN Camera_apply_settings(cam)
    ELSE cam

\* the handler's `except: tb.print_exc()`, lost: the exception leaves it
except_clause_missing(i) == [handlerPc EXCEPT ![i] = "raised"]

\* the handler's `except: tb.print_exc()`, after which it returns
except_clause(i) == [handlerPc EXCEPT ![i] = "done"]

\* A free thread takes the oldest work item and enters its handler, up to
\* the handler's first call on the camera or on playsound.
Worker_run ==
    /\ Queue # <<>>
    /\ Cardinality(Running) < max_workers
    /\ started' = Append(started, Head(Queue))
    /\ handlerPc' = [handlerPc EXCEPT ![Head(Queue)] =
                        IF execActions[Head(Queue)].kind = "PICT"
                        THEN PictCalls[1] ELSE "playsound"]
    /\ UNCHANGED <<excepted, camera, captures, notWork>>

\* _execute_pict: the call the handler is at returns; on a camera that is
\* None every call raises
execute_pict(i) ==
    /\ handlerPc[i] \in {PictCalls[k] : k \in DOMAIN PictCalls}
    /\ camera # None
    /\ camera' = Camera_call(camera, handlerPc[i], i)
    /\ captures' = IF handlerPc[i] = "trigger_capture_and_wait"
                   THEN Append(captures, [action |-> i, with |-> camera.applied])
                   ELSE captures
    /\ handlerPc' = [handlerPc EXCEPT ![i] = CallAfter(@)]
    /\ UNCHANGED <<started, excepted, notWork>>

\* _execute_pict: the call the handler is at raises
execute_pict_except(i) ==
    /\ handlerPc[i] \in {PictCalls[k] : k \in DOMAIN PictCalls}
    /\ handlerPc' = except_clause(i)
    /\ excepted' = excepted \cup {i}
    /\ UNCHANGED <<started, camera, captures, notWork>>

\* _execute_play: playsound(filename) returns
execute_play(i) ==
    /\ handlerPc[i] = "playsound"
    /\ handlerPc' = [handlerPc EXCEPT ![i] = "done"]
    /\ UNCHANGED <<started, excepted, camera, captures, notWork>>

\* _execute_play: playsound(filename) raises
execute_play_except(i) ==
    /\ handlerPc[i] = "playsound"
    /\ handlerPc' = except_clause(i)
    /\ excepted' = excepted \cup {i}
    /\ UNCHANGED <<started, camera, captures, notWork>>

RunPool == [kind : {"PICT", "PLAY"}, time : {0, 1}]
PoolPool == [kind : {"PLAY"}, time : {0, 1}]

\* the sequencer about to enter execute, no work item submitted yet
Sequencer_init(list) ==
    /\ SeqIdle /\ ParseIdle /\ GenIdle /\ EvtIdle /\ MagIdle /\ ScriptIdle
    /\ execActions = list
    /\ clock = 0
    /\ idx = 1 /\ loopPc = "eval" /\ wakeAt = 0
    /\ submitted = <<>> /\ evalLog = <<>>
    /\ started = <<>> /\ excepted = {} /\ captures = <<>>
    /\ handlerPc = [i \in DOMAIN list |-> "none"]
    /\ camera = IF no_camera THEN None ELSE Camera

InitRun ==
    /\ ArgIdle
    /\ \E list \in SeqsUpTo(RunPool, MaxRunLen) : Sequencer_init(list)

NextRun ==
    \/ Tick
    \/ execute_eval
    \/ execute_wake
    \/ execute_return
    \/ Worker_run
    \/ \E i \in DOMAIN handlerPc : execute_pict(i)
    \/ \E i \in DOMAIN handlerPc : execute_pict_except(i)
    \/ \E i \in DOMAIN handlerPc : execute_play(i)
    \/ \E i \in DOMAIN handlerPc : execute_play_except(i)

SpecRun == InitRun /\ [][NextRun]_vars

\* a run with --no-camera: _collect_actions kept the PLAY actions only
InitPool ==
    /\ no_sound = FALSE /\ no_camera = TRUE
    /\ \E list \in SeqsUpTo(PoolPool, MaxPoolLen) : Sequencer_init(list)

NextPool ==
    \/ Tick
    \/ execute_eval
    \/ execute_wake
    \/ execute_return
    \/ Worker_run
    \/ \E i \in DOMAIN handlerPc : execute_play(i)
    \/ \E i \in DOMAIN handlerPc : execute_play_except(i)

SpecPool == InitPool /\ [][NextPool]_vars

(***************************************************************************)
(* sequencer.py: Sequencer.__init__.  The constructor reads the sequence   *)
(* file, filters its actions by kind, opens the camera unless --no-camera  *)
(* was given, and creates the executor; execute then runs the filtered     *)
(* list.  The clock of the model counts tenths of a second from 00:00:00.  *)
(***************************************************************************)
Ticks(t) ==
    (((((t.hour * 60) + t.minute) * 60) + t.second) * 10) + (t.micro \div 100000)

\* _collect_actions with a fault: the PICT actions are kept whatever
\* no_camera says
Sequencer_collect_actions_all_pict(acts, ns, nc) ==
    SelectSeq(acts, LAMBDA a : a.kind = "PICT" \/ (a.kind = "PLAY" /\ ~ns))

\* _collect_actions, the filter over self.sequence.actions
Sequencer_collect_actions(acts, ns, nc) ==
    SelectSeq(acts, LAMBDA a : \/ (a.kind = "PICT" /\ ~nc)
                               \/ (a.kind = "PLAY" /\ ~ns))

\* an action as the control loop sees it: its time on the model's clock
Scheduled(acts) == [i \in DOMAIN acts |-> [acts[i] EXCEPT !.time = Ticks(@)]]

\* Sequencer(args) with args.sequence the file csvfile; an exception of
\* read_csv leaves the constructor
Sequencer_new ==
    /\ loopPc = "idle" /\ seqPhase = "new"
    /\ seqBefore' = actions
    /\ actions' = ReadRows(csvfile, <<>>).actions
    /\ IF ReadRows(csvfile, <<>>).raised
       THEN /\ seqPhase' = "raised" /\ loopPc' = "raised"
            /\ UNCHANGED <<execActions, handlerPc, camera>>
       ELSE /\ seqPhase' = "loaded" /\ loopPc' = "eval"
            /\ execActions' =
                   Scheduled(Sequencer_collect_actions(actions', no_sound,
                                                       no_camera))
            /\ handlerPc' = [i \in DOMAIN execActions' |-> "none"]
            /\ camera' = IF no_camera THEN None ELSE Camera
    /\ UNCHANGED <<csvfile, seqInput, clock, idx, wakeAt, submitted, evalLog,
                   started, excepted, captures, parseVars, genVars, evtVars,
                   magVars, scriptVars, argVars>>

SequenceRows ==
    {as_dict(ActionTakePic(DT(1, 0, 0, 0, 0), Txt("1/1000"), Txt("f/8"),
                           Txt("100"), Txt("beads"))),
     as_dict(ActionPlay(DT(1, 0, 0, 0, 100000), Txt("c2.mp3"),
                        Txt("contact"))),
     HeaderRow,
     [as_dict(ActionPlay(DT(1, 0, 0, 0, 0), Txt("c2.mp3"), Txt("contact")))
         EXCEPT !.date = Lit("2024-04-08")]}

\* the arguments: the sequence file, --no-sound, --no-camera
InitSequencer ==
    /\ csvfile \in SeqsUpTo(SequenceRows, MaxRunLen)
    /\ no_sound \in BOOLEAN /\ no_camera \in BOOLEAN
    /\ actions = <<>> /\ seqInput = <<>> /\ seqBefore = <<>> /\ seqPhase = "new"
    /\ ExecIdle /\ ParseIdle /\ GenIdle /\ EvtIdle /\ WorkIdle /\ MagIdle
    /\ ScriptIdle

NextSequencer ==
    \/ Sequencer_new
    \/ Tick
    \/ execute_eval
    \/ execute_wake
    \/ execute_return
    \/ Worker_run
    \/ \E i \in DOMAIN handlerPc : execute_pict(i)
    \/ \E i \in DOMAIN handlerPc : execute_pict_except(i)
    \/ \E i \in DOMAIN handlerPc : execute_play(i)
    \/ \E i \in DOMAIN handlerPc : execute_play_except(i)

SpecSequencer == InitSequencer /\ [][NextSequencer]_vars

(***************************************************************************)
(* C26.  The sequencer's action list is exactly the deserialized sequence  *)
(* with every PICT action removed when capture is disabled and every PLAY  *)
(* action removed when audio is disabled, the remaining actions in their   *)
(* relative order; consequently a capture handler is never dispatched      *)
(* while no camera has been opened.                                        *)
(***************************************************************************)
Disabled(a) == (a.kind = "PICT" /\ no_camera) \/ (a.kind = "PLAY" /\ no_sound)

\* the positions in the deserialized sequence of the actions that stay
KeptPositions == {i \in DOMAIN actions : ~Disabled(actions[i])}

\* the position in the deserialized sequence of the k-th action that stays
KeptPosition(k) ==
    CHOOSE i \in KeptPositions :
        Cardinality({j \in KeptPositions : j <= i}) = k

C26_DisabledKindsRemoved ==
    /\ loopPc \notin {"idle", "raised"} =>
          /\ Len(execActions) = Cardinality(KeptPositions)
          /\ \A k \in DOMAIN execActions :
                execActions[k] =
                    [actions[KeptPosition(k)] EXCEPT !.time = Ticks(@)]
          /\ (camera = None) = no_camera
    /\ \A k \in DOMAIN submitted :
          execActions[submitted[k]].kind = "PICT" => camera # None
    /\ \A i \in DOMAIN handlerPc :
          handlerPc[i] \in {PictCalls[k] : k \in DOMAIN PictCalls}
             => camera # None

\* a file with a capture and then a sound was read with --no-camera, and
\* the sound, the only action left, was handed over and played
C26_Witness ==
    /\ no_camera /\ ~no_sound /\ camera = None
    /\ Len(actions) = 2 /\ actions[1].kind = "PICT" /\ actions[2].kind = "PLAY"
    /\ Len(execActions) = 1 /\ execActions[1].kind = "PLAY"
    /\ submitted = <<1>> /\ handlerPc[1] = "done" /\ loopPc = "done"

(***************************************************************************)
(* C11.  After the control loop hands an action to the dispatcher it goes  *)
(* on to the next action without waiting for that handler or any earlier   *)
(* one: whatever the handlers are doing, the loop can evaluate the action  *)
(* it is at, return from a sleep that has run out, and finish.             *)
(***************************************************************************)
C11_LoopNeverWaits ==
    /\ (loopPc = "eval" /\ idx <= Len(execActions)) => ENABLED execute_eval
    /\ (loopPc = "eval" /\ idx > Len(execActions)) => ENABLED execute_return
    /\ (loopPc = "sleep" /\ clock >= wakeAt) => ENABLED execute_wake

\* the second action was evaluated in the tick the first was handed over,
\* while the first's capture is still waiting for the camera
C11_Witness ==
    /\ Len(evalLog) = 2
    /\ evalLog[1].did = "run" /\ evalLog[2].now = evalLog[1].now
    /\ handlerPc[1] = "trigger_capture_and_wait"
    /\ clock = evalLog[1].now

(***************************************************************************)
(* C12.  Every dispatched action gets a unit of concurrency of its own,    *)
(* with no bound on how many handlers run at once: a handler handed to the *)
(* dispatcher starts whatever the number of handlers still running, so an  *)
(* item in the executor's queue always finds a free thread.                *)
(***************************************************************************)
C12_HandlerStartsAtOnce ==
    Queue # <<>> => Cardinality(Running) < max_workers

(***************************************************************************)
(* C13.  A failure raised by the audio or device capability inside a       *)
(* dispatched handler is caught inside that handler: the step in which it  *)
(* happens ends that handler normally and changes nothing of the control   *)
(* loop, of the other handlers or of the executor.                         *)
(***************************************************************************)
C13_FailureStaysInHandler ==
    [][excepted' # excepted =>
          /\ UNCHANGED execVars
          /\ UNCHANGED <<started, camera, captures>>
          /\ \E i \in DOMAIN handlerPc :
                /\ excepted' = excepted \cup {i}
                /\ handlerPc' = [handlerPc EXCEPT ![i] = "done"]]_vars

\* a handler failed; one started after it ran to its end without failing,
\* and the loop went through its list
C13_Witness ==
    /\ loopPc = "done" /\ Len(started) = 2
    /\ started[1] \in excepted
    /\ started[2] \notin excepted /\ handlerPc[started[2]] = "done"
    /\ handlerPc[started[1]] = "done"
    /\ \E k \in DOMAIN captures : captures[k].action = started[2]

(***************************************************************************)
(* C17.  The device-control calls of capture handlers are serialized per   *)
(* device: the calls of one capture handler are never interleaved with     *)
(* those of another, so each capture is taken with the aperture, iso and   *)
(* shutter speed of its own action.                                        *)
(***************************************************************************)
C17_CaptureWithOwnSettings ==
    \A k \in DOMAIN captures :
        captures[k].with = [aperture |-> captures[k].action,
                            iso |-> captures[k].action,
                            shutter |-> captures[k].action]

(***************************************************************************)
(* Python floats.  A float is an IEEE-754 double: sign s, and magnitude    *)
(* m * 2^e with m below 2^53.  m is a natural number written as a list of  *)
(* limbs (digits in base 2^15), least significant first and without        *)
(* leading zeros, and kept odd (e is as large as it can be); zero has no   *)
(* limbs.  The results of float(), +, * and / are rounded to the nearest   *)
(* double, ties to the even one, as the hardware does.  The exponent range *)
(* is not modelled: the numbers of a script are far from overflow and      *)
(* underflow.                                                              *)
(***************************************************************************)
MantissaBits == 53
LimbBits == 15
Base == 2 ^ LimbBits

\* limb i of b; limbs beyond the list are zero
Limb(b, i) == IF i \in DOMAIN b THEN b[i] ELSE 0

\* position of the most significant limb that is not zero
Top(b) == Max({0} \cup {i \in DOMAIN b : b[i] # 0})

\* b without its leading zero limbs
StripHigh(b) == SubSeq(b, 1, Top(b))

\* the limbs of a natural number of the model (below 2^31)
NatToLimbs(n) ==
    StripHigh(<<n % Base, (n \div Base) % Base, n \div (Base * Base)>>)

\* the natural number of a limb list (below 2^31)
LimbsToNat(b) ==
    Limb(b, 1) + (Base * Limb(b, 2)) + (Base * Base * Limb(b, 3))

\* number of bits of the natural n < Base
BitLenNat(n) == Min({k \in 0..LimbBits : n < 2 ^ k})

\* number of bits of b
BitLen(b) ==
    LET UpTo(top) == IF top = 0 THEN 0
                     ELSE LimbBits * (top - 1) + BitLenNat(b[top]) IN
    UpTo(Top(b))

\* a + b + c for limb lists a, b and a carry c of 0 or 1.  A carry enters
\* limb i when a limb below generates one and every limb between passes it on.
AddLimbs(a, b, c) ==
    LET sum(j) == Limb(a, j) + Limb(b, j)
        carry(i) == \E j \in 0..i - 1 :
                       /\ IF j = 0 THEN c = 1 ELSE sum(j) >= Base
                       /\ \A k \in j + 1..i - 1 : sum(k) >= Base - 1 IN
    IF c = 0 /\ a = <<>> THEN b
    ELSE IF c = 0 /\ b = <<>> THEN a
    ELSE StripHigh([i \in 1..Max({Len(a), Len(b)}) + 1 |->
                      (sum(i) + (IF carry(i) THEN 1 ELSE 0)) % Base])

\* a - b for limb lists with a >= b
SubLimbs(a, b) ==
    LET borrow(i) == \E j \in 1..i - 1 :
                        /\ Limb(a, j) < Limb(b, j)
                        /\ \A k \in j + 1..i - 1 : Limb(a, k) <= Limb(b, k) IN
    IF a = b THEN <<>>
    ELSE IF b = <<>> THEN a
    ELSE StripHigh([i \in 1..Len(a) |->
                      (Limb(a, i) - Limb(b, i) - (IF borrow(i) THEN 1 ELSE 0))
                      % Base])

\* b * k for a limb list b and a natural k below Base
MulLimbs(b, k) ==
    IF k = 0 \/ b = <<>> THEN <<>>
    ELSE AddLimbs(StripHigh([i \in 1..Len(b) |-> (b[i] * k) % Base]),
                  StripHigh(<<0>> \o [i \in 1..Len(b) |-> (b[i] * k) \div Base]),
                  0)

\* a * b for limb lists, b of at most 4 limbs: column i sums the low halves
\* of the limb products of weight i and the high halves of those of weight
\* i - 1, and the columns are then added up with their carries
MulLL(a, b) ==
    LET lo(i, j) == (Limb(a, i - j) * Limb(b, j)) % Base
        hi(i, j) == (Limb(a, i - j) * Limb(b, j)) \div Base
        col(i) == lo(i + 1, 1) + lo(i + 1, 2) + lo(i + 1, 3) + lo(i + 1, 4)
                  + hi(i, 1) + hi(i, 2) + hi(i, 3) + hi(i, 4)
        n == Len(a) + Len(b) IN
    IF a = <<>> \/ b = <<>> THEN <<>>
    ELSE AddLimbs(StripHigh([i \in 1..n |-> col(i) % Base]),
                  StripHigh(<<0>> \o [i \in 1..n |-> col(i) \div Base]), 0)

\* Base^j modulo d, for j in 0..8 and d below Base
PowMod(j, d) ==
    LET Squared(p) == (p * p) % d
        Powers(p1, p2, p4) ==
            <<1 % d, p1, p2, (p2 * p1) % d, p4, (p4 * p1) % d, (p4 * p2) % d,
              (((p4 * p2) % d) * p1) % d, Squared(p4)>> IN
    Powers(Base % d, Squared(Base % d), Squared(Squared(Base % d)))[j + 1]

\* quotient and remainder of b (at most 9 limbs) by the natural d < Base:
\* long division.  rem(i) is the remainder left when limb i is brought down:
\* the limbs above i, as a number, modulo d.
DivLimbs(b, d) ==
    LET Divided(pow) ==
            LET term(i, j) == (Limb(b, i + j) * pow[j]) % d
                Remainders(rem) ==
                    [q |-> StripHigh([i \in 1..Len(b) |->
                                        ((rem[i + 1] * Base) + b[i]) \div d]),
                     r |-> rem[1]] IN
            Remainders([i \in 1..Len(b) + 1 |->
                          (term(i - 1, 1) + term(i - 1, 2) + term(i - 1, 3)
                           + term(i - 1, 4) + term(i - 1, 5) + term(i - 1, 6)
                           + term(i - 1, 7) + term(i - 1, 8) + term(i - 1, 9)) % d]) IN
    IF b = <<>> THEN [q |-> <<>>, r |-> 0]
    ELSE Divided([j \in 1..9 |-> PowMod(j - 1, d)])

\* a < b for limb lists
LessLimbs(a, b) ==
    LET D == {i \in 1..Max({Len(a), Len(b)}) : Limb(a, i) # Limb(b, i)} IN
    a # b /\ Limb(a, Max(D)) < Limb(b, Max(D))

\* b * 2^k
ShiftLeft(b, k) ==
    LET q == k \div LimbBits
        r == k % LimbBits IN
    IF k = 0 \/ b = <<>> THEN b
    ELSE StripHigh([i \in 1..Len(b) + q + 1 |->
                      ((Limb(b, i - q) * (2 ^ r)) % Base)
                      + (Limb(b, i - q - 1) \div (2 ^ (LimbBits - r)))])

\* b \div 2^k, and whether bits that are not zero were dropped
ShiftRight(b, k) ==
    LET q == k \div LimbBits
        r == k % LimbBits IN
    IF k = 0 \/ b = <<>> THEN [q |-> b, inexact |-> FALSE]
    ELSE [q |-> StripHigh([i \in 1..Len(b) |->
                   (Limb(b, i + q) \div (2 ^ r))
                   + ((Limb(b, i + q + 1) % (2 ^ r)) * (2 ^ (LimbBits - r)))]),
          inexact |-> \/ \E i \in 1..Len(b) : i <= q /\ b[i] # 0
                      \/ (Limb(b, q + 1) % (2 ^ r)) # 0]

IsOdd(b) == (Limb(b, 1) % 2) = 1

\* number of trailing zero bits of b # 0
LowZeroBits(b) ==
    LET i == Min({j \in 1..Len(b) : b[j] # 0}) IN
    LimbBits * (i - 1) + Min({k \in 0..LimbBits : (b[i] % (2 ^ (k + 1))) # 0})

FZero == [s |-> 1, m |-> <<>>, e |-> 0]

\* the double of magnitude b * 2^e for b with z low zero bits, which go to e
WithoutLowBits(sgn, b, e, z) ==
    [s |-> sgn, m |-> ShiftRight(b, z).q, e |-> e + z]

\* the double of magnitude b * 2^e, b exact
Canonical(sgn, b, e) ==
    IF b = <<>> THEN FZero ELSE WithoutLowBits(sgn, b, e, LowZeroBits(b))

\* `kept`, the bits above the guard bit (the lowest bit of g.q), rounded to
\* nearest, ties to even
RoundUp(g, kept, sticky) ==
    IF IsOdd(g.q) /\ (g.inexact \/ sticky \/ IsOdd(kept))
    THEN AddLimbs(kept, <<>>, 1) ELSE kept

DropGuarded(g, sticky) == RoundUp(g, ShiftRight(g.q, 1).q, sticky)

\* b with its k lowest bits dropped, rounded to nearest, ties to even;
\* `sticky` says that the exact value exceeds b by a fraction of its last bit
DropBits(b, k, sticky) ==
    IF k <= 0 THEN b ELSE DropGuarded(ShiftRight(b, k - 1), sticky)

RoundedBy(sgn, b, e, sticky, k) ==
    Canonical(sgn, DropBits(b, k, sticky), e + k)

\* the double nearest to (b + fraction) * 2^e: the bits beyond the 53rd are
\* dropped
RoundToDouble(sgn, b, e, sticky) ==
    IF b = <<>> THEN FZero
    ELSE RoundedBy(sgn, b, e, sticky, Max({0, BitLen(b) - MantissaBits}))

\* A decimal literal of a script: n / 10^d, n a natural.
Dec(n, d) == [n |-> n, d |-> d]

\* float("<n / 10^d in decimal>"): the nearest double.  The quotient of
\* n * 2^75 by 10^d has more than 53 bits whenever n > 0.
NearestDouble(qr) == RoundToDouble(1, qr.q, -(5 * LimbBits), qr.r # 0)

float(lit) ==
    NearestDouble(DivLimbs(ShiftLeft(NatToLimbs(lit.n), 5 * LimbBits),
                           10 ^ lit.d))

\* the limbs of x.m * 2^(x.e - e), for e <= x.e
AlignedTo(x, e) == ShiftLeft(x.m, x.e - e)

FNeg(x) == IF x.m = <<>> THEN x ELSE [x EXCEPT !.s = -x.s]

\* x + y for the magnitudes a and b of x and y in units of 2^e: their sum
\* when the signs agree (`same`), else the difference of the larger and the
\* smaller (`less` says a < b) with the sign of the larger
FAddAligned(x, y, a, b, e, same, less) ==
    RoundToDouble(IF (same /\ x.m = <<>>) \/ (~same /\ less) THEN y.s ELSE x.s,
                  IF same THEN AddLimbs(a, b, 0)
                  ELSE IF less THEN SubLimbs(b, a) ELSE SubLimbs(a, b),
                  e, FALSE)

FAddAt(x, y, e, same) ==
    FAddAligned(x, y, AlignedTo(x, e), AlignedTo(y, e), e, same,
                ~same /\ LessLimbs(AlignedTo(x, e), AlignedTo(y, e)))

\* x + y
FAdd(x, y) ==
    FAddAt(x, y, Min({x.e, y.e}), x.m = <<>> \/ y.m = <<>> \/ x.s = y.s)

\* x - y = x + (-y)
FSub(x, y) == FAdd(x, FNeg(y))

\* x * k for a natural k < Base (an int converted to float is exact)
FMulNat(x, k) == RoundToDouble(x.s, MulLimbs(x.m, k), x.e, FALSE)

\* x * y
FMul(x, y) == RoundToDouble(x.s * y.s, MulLL(x.m, y.m), x.e + y.e, FALSE)

\* x < y for doubles that are not negative
FLess(x, y) ==
    IF x.m = <<>> \/ y.m = <<>> THEN y.m # <<>>
    ELSE LessLimbs(AlignedTo(x, Min({x.e, y.e})), AlignedTo(y, Min({x.e, y.e})))

\* the integer part of the magnitude of x
TruncMagnitude(x) ==
    IF x.e >= 0 THEN LimbsToNat(AlignedTo(x, 0))
    ELSE LimbsToNat(ShiftRight(x.m, -x.e).q)

\* int(x): towards zero
int(x) == x.s * TruncMagnitude(x)

\* p * 2^e rounded to the nearest integer, ties to even
ScaledBy(p, e) ==
    IF e >= 0 THEN ShiftLeft(p, e) ELSE DropBits(p, -e, FALSE)

\* the magnitude of x times k, rounded to the nearest integer, ties to even:
\* the digits "%.1f" prints for k = 10, as a count of tenths
RoundedTimes(x, k) == LimbsToNat(ScaledBy(MulLimbs(x.m, k), x.e))

\* whether g * d <= t
Fits(t, d, g) == g >= 0 /\ ~LessLimbs(t, MulLimbs(d, g))

\* the digit guessed from the two top limbs of t is at most 2 too large
DigitFrom(t, d, guess) ==
    IF Fits(t, d, guess) THEN guess
    ELSE IF Fits(t, d, guess - 1) THEN guess - 1 ELSE guess - 2

\* One digit of a long division: the largest g with g * d <= t, for d of n
\* limbs whose top limb is at least Base / 2 and t < d * Base.
QuotientDigit(t, d) ==
    DigitFrom(t, d,
              Min({((Limb(t, Len(d) + 1) * Base) + Limb(t, Len(d))) \div d[Len(d)],
                   Base - 1}))

DivDigit(t, d, g) ==
    IF g = 0 THEN [g |-> 0, r |-> t]
    ELSE [g |-> g, r |-> SubLimbs(t, MulLimbs(d, g))]

DivDown(t, d) == DivDigit(t, d, QuotientDigit(t, d))

\* One step of a long division by d: limb `limb` is brought down to the
\* remainder r < d; the step yields a quotient digit g and the new remainder
DivStep(limb, d, r) == DivDown(StripHigh(<<limb>> \o r), d)

\* the last steps of DivBig: s4, s3, ... are the steps made so far, each
\* leaving a remainder below d
DivBig1(b, d, s4, s3, s2, s1) ==
    IF s1.r # d
    THEN [q |-> StripHigh(<<s1.g, s2.g, s3.g, s4.g>>), r |-> s1.r]
    ELSE [q |-> <<>>, r |-> <<>>]

DivBig2(b, d, s4, s3, s2) ==
    IF s2.r # d THEN DivBig1(b, d, s4, s3, s2, DivStep(Limb(b, 1), d, s2.r))
    ELSE [q |-> <<>>, r |-> <<>>]

DivBig3(b, d, s4, s3) ==
    IF s3.r # d THEN DivBig2(b, d, s4, s3, DivStep(Limb(b, 2), d, s3.r))
    ELSE [q |-> <<>>, r |-> <<>>]

DivBig4(b, d, s4) ==
    IF s4.r # d THEN DivBig3(b, d, s4, DivStep(Limb(b, 3), d, s4.r))
    ELSE [q |-> <<>>, r |-> <<>>]

\* quotient and remainder of the limb list b by the limb list d (top limb of
\* d at least Base / 2), for b < d * Base^4: long division.  The limbs of b
\* above the fourth are below d and start as the remainder; four steps bring
\* down the other limbs, most significant first.
DivBig(b, d) == DivBig4(b, d, DivStep(Limb(b, 4), d, SubSeq(b, 5, Len(b))))

FDivQuotient(x, y, qr, k) ==
    RoundToDouble(x.s * y.s, qr.q, x.e - y.e - k, qr.r # <<>>)

FDivScaled(x, y, norm, k) ==
    FDivQuotient(x, y,
                 DivBig(ShiftLeft(x.m, norm + k), ShiftLeft(y.m, norm)), k)

\* x / y for y # 0.  The mantissa of x is scaled by 2^k so that the quotient
\* of the mantissas has 55 or 56 bits, and the divisor by 2^norm to a whole
\* number of limbs; the quotient is then rounded.
FDiv(x, y) ==
    IF x.m = <<>> THEN FZero
    ELSE FDivScaled(x, y, (LimbBits - (BitLen(y.m) % LimbBits)) % LimbBits,
                    MantissaBits + 2 + BitLen(y.m) - BitLen(x.m))

\* timedelta * float: us microseconds times x, rounded to a whole
\* microsecond, ties to even
TimedeltaTimes(us, x) ==
    IF x.m = <<>> THEN 0
    ELSE (IF us < 0 THEN -1 ELSE 1) * x.s
         * LimbsToNat(ScaledBy(MulLL(x.m, NatToLimbs(IF us < 0 THEN -us ELSE us)),
                               x.e))

(***************************************************************************)
(* EventManager (sem/event.py).                                            *)
(*                                                                         *)
(* An instant is a whole number of microseconds after a reference instant  *)
(* of the eclipse day.  An entry of a magnitude table is the pair          *)
(* (magnitude, instant) of the source, kept with the decimal text `lit`    *)
(* the magnitude was read from.  An event name is the list of its words    *)
(* (the parts of name.split(' ')): Word(s) is a word of letters, Dec(n, d) *)
(* a word that is a decimal number.  Indices are 1-based, and the index 0  *)
(* stands for the None that sub_search returns when nothing matches.       *)
(*                                                                         *)
(* A call returns Time(t), None, or Raised(exc) when it ends by raising.   *)
(***************************************************************************)
Word(s) == [w |-> s]
IsNumber(word) == DOMAIN word = {"n", "d"}

Time(t) == [kind |-> "time", t |-> t]
Raised(exc) == [kind |-> "raised", exc |-> exc]
\* a timedelta of us microseconds
Timedelta(us) == [kind |-> "timedelta", us |-> us]

Entry(lit, t) == [mag |-> float(lit), time |-> t, lit |-> lit]

Reverse(s) == [i \in 1..Len(s) |-> s[Len(s) + 1 - i]]

\* EventManager.__init__: the post table is stored reversed; max_magnitude
\* is the text found in the file, or None
EventManager(events, pre_mags, post_mags, max_magnitude) ==
    [events |-> events,
     pre_magnitudes |-> pre_mags,
     post_magnitudes |-> Reverse(post_mags),
     max_magnitude |-> IF max_magnitude = None THEN float(Dec(1, 0))
                       ELSE float(max_magnitude)]

NoBound == [index |-> 0, king |-> None]

\* variant of sub_search that stops at the first item that passes the check
sub_search_first(sequence, target) ==
    IF sequence # <<>> /\ ~FLess(target, sequence[1].mag)
    THEN [index |-> 1, king |-> sequence[1]] ELSE NoBound

\* the (index, king) left by a sub_search whose last passing item is item n
Bound(sequence, n, none) ==
    IF n = none THEN NoBound ELSE [index |-> n, king |-> sequence[n]]

\* sub_search(seq_forward, lambda x: x <= target): the last item of the
\* longest prefix whose keys are all <= target
sub_search_forward(sequence, target) ==
    Bound(sequence,
          Max({k \in 0..Len(sequence) :
                 \A j \in 1..k : ~FLess(target, sequence[j].mag)}),
          0)

\* sub_search(seq_reverse, lambda x: x >= target): the first item of the
\* longest suffix whose keys are all >= target
sub_search_reverse(sequence, target) ==
    Bound(sequence,
          Min({k \in 1..Len(sequence) + 1 :
                 \A j \in k..Len(sequence) : ~FLess(sequence[j].mag, target)}),
          Len(sequence) + 1)

find_bounds(sequence, target) ==
    <<sub_search_forward(sequence, target), sub_search_reverse(sequence, target)>>

\* get_magnitude_time from `delta_m = hi_m - lo_m` on
get_magnitude_time_middle(lo, hi, magnitude, delta_m) ==
    IF delta_m = FZero THEN Raised("ZeroDivisionError")
    ELSE Time(lo.king.time
              + TimedeltaTimes(hi.king.time - lo.king.time,
                               FDiv(FSub(magnitude, lo.king.mag), delta_m)))

\* get_magnitude_time from the unpacking of lo and hi on
get_magnitude_time_bounds(lo, hi, magnitude) ==
    IF lo.index = 0 \/ hi.index = 0 THEN Raised("TypeError")
    ELSE IF lo.index = hi.index THEN Time(lo.king.time)
    ELSE get_magnitude_time_middle(lo, hi, magnitude,
                                   FSub(hi.king.mag, lo.king.mag))

\* EventManager.get_magnitude_time.  Unpacking a bound that is
\* (None, None) raises TypeError; a zero delta_m raises ZeroDivisionError.
get_magnitude_time(em, magnitude, post) ==
    get_magnitude_time_bounds(
        sub_search_forward(IF post THEN em.post_magnitudes
                           ELSE em.pre_magnitudes, magnitude),
        sub_search_reverse(IF post THEN em.post_magnitudes
                           ELSE em.pre_magnitudes, magnitude),
        magnitude)

\* get_time of a one-word name that is not MAGPRE or MAGPOST
get_time_event(em, key) ==
    IF key \in DOMAIN em.events THEN Time(em.events[key]) ELSE None

\* t1 + (t2 - t1) * pct, or t2 - (t2 - t1) * pct when from_end; arithmetic
\* on a None operand raises TypeError
Linear(t1, t2, pct, from_end) ==
    IF t1 = None \/ t2 = None THEN Raised("TypeError")
    ELSE Time(IF from_end THEN t2.t - TimedeltaTimes(t2.t - t1.t, pct)
              ELSE t1.t + TimedeltaTimes(t2.t - t1.t, pct))

\* get_time of a MAGPRE / MAGPOST name from `if time:` on
get_time_fallback(em, post, pct, time) ==
    IF time # None THEN time
    ELSE IF post
    THEN Linear(get_time_event(em, "C3"), get_time_event(em, "C4"), pct, TRUE)
    ELSE Linear(get_time_event(em, "C1"), get_time_event(em, "C2"),
                FMul(em.max_magnitude, pct), FALSE)

\* get_time of a MAGPRE / MAGPOST name from `pct = float(percent) / 100` on
get_time_magnitude(em, post, pct) ==
    get_time_fallback(em, post, pct, get_magnitude_time(em, pct, post))

\* EventManager.get_time
get_time(em, name) ==
    IF Len(name) = 1 /\ ~IsNumber(name[1]) /\ name[1].w \in DOMAIN em.events
    THEN Time(em.events[name[1].w])
    ELSE IF Len(name) = 2 /\ name[1] \in {Word("MAGPRE"), Word("MAGPOST")}
    THEN IF ~IsNumber(name[2]) THEN Raised("ValueError")
         ELSE get_time_magnitude(em, name[1] = Word("MAGPOST"),
                                 FDiv(float(name[2]), float(Dec(100, 0))))
    ELSE None

(***************************************************************************)
(* The event tables of the model.  Magnitude readings are taken at regular *)
(* intervals, rise to the peak and fall again; the readings before the     *)
(* peak form the pre table, those after it the post table.                 *)
(***************************************************************************)
MaxTable == 3        \* most readings on the rising side

MagLits == {Dec(0, 3), Dec(300, 3), Dec(500, 3), Dec(1000, 3)}
GapPool == {100000, 300000}
PctLits == {Dec(0, 0), Dec(125, 1), Dec(30, 0), Dec(40, 0), Dec(50, 0),
            Dec(100, 0), Dec(120, 0)}

\* a decimal with at most 3 places, in thousandths
Thousandths(lit) == lit.n * 10 ^ (3 - lit.d)

EventTimes == [C1 |-> 0, C2 |-> 2000000, MAX |-> 2500000,
               C3 |-> 3000000, C4 |-> 5000000]

\* the readings lits, one every gap microseconds, after `from` earlier ones
Readings(lits, gap, from) ==
    [i \in 1..Len(lits) |-> Entry(lits[i], (from + i) * gap)]

\* the readings below the peak, mirrored: the falling side
Falling(lits) ==
    Reverse(SelectSeq(lits, LAMBDA l : Thousandths(l) < Thousandths(lits[Len(lits)])))

RisingLits ==
    {m \in SeqsUpTo(MagLits, MaxTable) :
        \A i \in 1..Len(m) - 1 : Thousandths(m[i]) <= Thousandths(m[i + 1])}

NamePool ==
    {<<Word("C1")>>, <<Word("MAX")>>, <<Word("SUNSET")>>,
     <<Word("MAGPRE"), Word("half")>>}
    \cup {<<Word(k), p>> : k \in {"MAGPRE", "MAGPOST"}, p \in PctLits}

\* One call of get_time.  It leaves the EventManager as it is, so that a
\* second call would start from the same state: a behaviour makes one call.
EventManager_get_time(name) ==
    /\ answer.kind = "idle"
    /\ query' = name
    /\ answer' = get_time(evm, name)
    /\ UNCHANGED <<evm, notEvt>>

InitEvt ==
    /\ \E lits \in RisingLits, gap \in GapPool, falls \in BOOLEAN :
         evm = EventManager(EventTimes, Readings(lits, gap, 0),
                            IF falls THEN Readings(Falling(lits), gap, Len(lits))
                            ELSE <<>>,
                            None)
    /\ query = <<>> /\ answer = [kind |-> "idle"]
    /\ SeqIdle /\ ExecIdle /\ ParseIdle /\ GenIdle /\ WorkIdle /\ MagIdle /\ ScriptIdle /\ ArgIdle

NextEvt == \E name \in NamePool : EventManager_get_time(name)

SpecEvt == InitEvt /\ [][NextEvt]_vars

(***************************************************************************)
(* C7.  For a table strictly increasing in magnitude and a target strictly *)
(* between the magnitudes of two adjacent entries (m_lo, t_lo) and         *)
(* (m_hi, t_hi), resolving MAGPRE / MAGPOST returns                        *)
(*     t_lo + (t_hi - t_lo) * (target - m_lo) / (m_hi - m_lo),             *)
(* to the nearest microsecond (the resolution of an instant); for entries  *)
(* of magnitude 0.0 and 1.0 and target 0.5 that is the instant exactly     *)
(* midway between the two.                                                 *)
(***************************************************************************)
Abs(x) == IF x < 0 THEN -x ELSE x

IsMagQuery ==
    /\ Len(query) = 2 /\ IsNumber(query[2])
    /\ query[1] \in {Word("MAGPRE"), Word("MAGPOST")}

\* the target fraction p / 100 of the query, in thousandths
TargetOf(name) == name[2].n * 10 ^ (1 - name[2].d)

QueriedTable ==
    IF query[1] = Word("MAGPOST") THEN evm.post_magnitudes
    ELSE evm.pre_magnitudes

StrictlyIncreasing(tab) ==
    \A i \in 1..Len(tab) - 1 : Thousandths(tab[i].lit) < Thousandths(tab[i + 1].lit)

Between(tab, i, tg) ==
    Thousandths(tab[i].lit) < tg /\ tg < Thousandths(tab[i + 1].lit)

C7_Interpolation ==
    (IsMagQuery /\ StrictlyIncreasing(QueriedTable)) =>
        \A i \in 1..Len(QueriedTable) - 1 :
            LET lo == QueriedTable[i]
                hi == QueriedTable[i + 1]
                tg == TargetOf(query)
                m_lo == Thousandths(lo.lit)
                delta_m == Thousandths(hi.lit) - m_lo IN
            Between(QueriedTable, i, tg) =>
                /\ answer.kind = "time"
                /\ 2 * Abs(delta_m * (answer.t - lo.time)
                           - (hi.time - lo.time) * (tg - m_lo)) <= delta_m
                /\ (m_lo = 0 /\ delta_m = 1000 /\ tg = 500)
                      => 2 * answer.t = lo.time + hi.time

\* an interpolation between the second and third entries of a table, which
\* is not a whole number of microseconds before rounding
C7_Witness ==
    /\ IsMagQuery /\ StrictlyIncreasing(QueriedTable)
    /\ Len(QueriedTable) = 3
    /\ Between(QueriedTable, 2, TargetOf(query))
    /\ answer.kind = "time"
    /\ QueriedTable[2].time # answer.t /\ answer.t # QueriedTable[3].time
    /\ ((QueriedTable[3].time - QueriedTable[2].time)
          * (TargetOf(query) - Thousandths(QueriedTable[2].lit)))
         % (Thousandths(QueriedTable[3].lit) - Thousandths(QueriedTable[2].lit)) # 0

(***************************************************************************)
(* C8.  When the target fraction equals the magnitude of an entry of the   *)
(* table (an exact knot), resolving MAGPRE / MAGPOST returns the timestamp *)
(* of an entry of that magnitude.                                          *)
(***************************************************************************)
TargetFraction == FDiv(float(query[2]), float(Dec(100, 0)))

C8_KnotReturnsEntryTime ==
    (IsMagQuery /\ \E j \in 1..Len(QueriedTable) :
                       QueriedTable[j].mag = TargetFraction) =>
        /\ answer.kind = "time"
        /\ \E j \in 1..Len(QueriedTable) :
             /\ QueriedTable[j].mag = TargetFraction
             /\ answer.t = QueriedTable[j].time

(***************************************************************************)
(* C14.  When the target fraction of a MAGPRE p lies outside the range of  *)
(* magnitudes of the pre table (below its smallest or above its largest    *)
(* entry, or the table is empty), resolution does not fail but returns     *)
(* C1 + (C2 - C1) * f * maxMagnitude; an out-of-range MAGPOST p returns    *)
(* C4 - (C4 - C3) * f.                                                     *)
(***************************************************************************)
OutOfRange(tab, tg) ==
    \/ tab = <<>>
    \/ \A j \in 1..Len(tab) : tg < Thousandths(tab[j].lit)
    \/ \A j \in 1..Len(tab) : tg > Thousandths(tab[j].lit)

C14_OutOfRangeFallsBack ==
    (IsMagQuery /\ OutOfRange(QueriedTable, TargetOf(query))) =>
        answer = IF query[1] = Word("MAGPOST")
                 THEN Time(evm.events["C4"]
                           - TimedeltaTimes(evm.events["C4"] - evm.events["C3"],
                                            TargetFraction))
                 ELSE Time(evm.events["C1"]
                           + TimedeltaTimes(evm.events["C2"] - evm.events["C1"],
                                            FMul(evm.max_magnitude,
                                                 TargetFraction)))

(***************************************************************************)
(* C28.  For a magnitude table that is non-decreasing in magnitude         *)
(* (repeated magnitudes allowed) and a target fraction between its         *)
(* smallest and largest magnitude inclusive, get_magnitude_time completes  *)
(* without error (no division by zero, no failed unpacking) and returns an *)
(* instant lying between the timestamps of the two bounding entries that   *)
(* find_bounds selected.                                                   *)
(***************************************************************************)
NonDecreasingMagnitudes(tab) ==
    \A i \in 1..Len(tab) - 1 : Thousandths(tab[i].lit) <= Thousandths(tab[i + 1].lit)

LiesBetween(t, a, b) == (a <= t /\ t <= b) \/ (b <= t /\ t <= a)

C28_InRangeCompletes ==
    (/\ IsMagQuery /\ NonDecreasingMagnitudes(QueriedTable)
     /\ ~OutOfRange(QueriedTable, TargetOf(query))) =>
        /\ answer.kind = "time"
        /\ \E b \in {find_bounds(QueriedTable, TargetFraction)} :
             /\ b[1].index > 0 /\ b[2].index > 0
             /\ LiesBetween(answer.t, b[1].king.time, b[2].king.time)

(***************************************************************************)
(* Script commands and their expansion (sem/semscript.py).                 *)
(*                                                                         *)
(* A comment is the list of its parts: `comment += suffix` appends a part. *)
(* The offset of a command is what parse_time_delta returned: a timedelta  *)
(* or None.                                                                *)
(***************************************************************************)
MaxChildren == 2     \* most commands inside a loop block

TakePic(event, offset, shutter_sec, aperture, iso, comment) ==
    [cmd |-> "TAKEPIC", event |-> event, offset |-> offset,
     shutter_sec |-> shutter_sec, aperture |-> aperture, iso |-> iso,
     comment |-> comment]

Play(event, offset, file, comment) ==
    [cmd |-> "PLAY", event |-> event, offset |-> offset, file |-> file,
     comment |-> comment]

\* ForVarLoop.__init__ on the literals of the script line
ForVarLoop(start, step, end) ==
    [type |-> "var", start |-> float(start), step |-> float(step),
     end |-> float(end), args |-> <<start, step, end>>, commands |-> <<>>]

\* ForIterLoop.__init__ on the literals of the script line
ForIterLoop(kind, delay, iters) ==
    [type |-> "iter", kind |-> kind, delay |-> float(delay), iters |-> iters,
     args |-> <<kind, delay, iters>>, commands |-> <<>>]

\* f'{value:04.1f}' for value >= 0: the decimal with one place nearest to
\* value, ties to even
Format_04_1f(x) == Dec(RoundedTimes(x, 10), 1)

\* the suffixes f" (Mag. {var}%)" and f" (iter. {i+1:03d})"
MagSuffix(var) == [suffix |-> "Mag", var |-> var]
IterSuffix(n) == [suffix |-> "iter", n |-> n]

Generated(list) == [kind |-> "actions", list |-> list]

\* action_at with a fault: a None time is taken for the instant 0
action_at_guessing(c, time) ==
    IF time.kind = "raised" THEN time
    ELSE IF c.offset = None THEN Raised("TypeError")
    ELSE IF c.cmd = "PLAY"
    THEN Generated(<<ActionPlay((IF time = None THEN 0 ELSE time.t)
                                + c.offset.us, c.file, c.comment)>>)
    ELSE Generated(<<ActionTakePic((IF time = None THEN 0 ELSE time.t)
                                   + c.offset.us, c.shutter_sec,
                                   c.aperture, c.iso, c.comment)>>)

\* the action of a command at `time`, the value of events.get_time(event).
\* Adding the offset to a None time, or a None offset to a time, raises
\* TypeError.
action_at(c, time) ==
    IF time.kind = "raised" THEN time
    ELSE IF time = None \/ c.offset = None THEN Raised("TypeError")
    ELSE IF c.cmd = "PLAY"
    THEN Generated(<<ActionPlay(time.t + c.offset.us, c.file, c.comment)>>)
    ELSE Generated(<<ActionTakePic(time.t + c.offset.us, c.shutter_sec,
                                   c.aperture, c.iso, c.comment)>>)

\* TakePic.generate_actions / Play.generate_actions with `event` the
\* override_event or the command's own event
generate_actions(c, events, event) == action_at(c, get_time(events, event))

\* `action.comment += f" (Mag. {var}%)"` for the actions of a MAGPRE or
\* MAGPOST command
ForVarLoop_extend(c, var, more) ==
    IF more.kind = "raised" THEN more
    ELSE IF c.event[1] \in {Word("MAGPRE"), Word("MAGPOST")}
    THEN Generated([i \in 1..Len(more.list) |->
             [more.list[i] EXCEPT !.comment = @ \o <<MagSuffix(var)>>]])
    ELSE more

ForVarLoop_override(c, events, var) ==
    ForVarLoop_extend(c, var, generate_actions(c, events, <<c.event[1], var>>))

\* the body of `for c in self.commands` of ForVarLoop.generate_actions for
\* the child c: the list to extend `actions` with, or what is raised.
\* c.event.split(' ', maxsplit=2) must unpack into two parts.
ForVarLoop_child(c, events, val) ==
    IF Len(c.event) # 2 THEN Raised("ValueError")
    ELSE ForVarLoop_override(c, events, Format_04_1f(val))

\* `action.time += var` and `action.comment += f" (iter. {i+1:03d})"`
ForIterLoop_shift(microsec, more, i) ==
    IF more.kind = "raised" THEN more
    ELSE Generated([j \in 1..Len(more.list) |->
             [more.list[j] EXCEPT !.time = @ + microsec,
                                  !.comment = @ \o <<IterSuffix(i + 1)>>]])

\* the body of `for c in self.commands` of ForIterLoop.generate_actions
ForIterLoop_child(c, events, val, i) ==
    ForIterLoop_shift(int(FMulNat(val, 100)) * 10000,
                      generate_actions(c, events, c.event), i)

(***************************************************************************)
(* Expansion of one loop block, one step per pass through the inner `for`  *)
(* body.  The initial state is the entry of generate_actions: `actions` is *)
(* empty and `value` is self.start (ForVarLoop) or 0.0 (ForIterLoop).      *)
(***************************************************************************)
VarArgs ==
    {<<Dec(0, 0), Dec(1, 0), Dec(3, 0)>>, <<Dec(0, 0), Dec(1, 1), Dec(1, 0)>>,
     <<Dec(0, 0), Dec(5, 1), Dec(2, 0)>>, <<Dec(1, 0), Dec(1, 0), Dec(1, 0)>>}

IterArgs ==
    {<<1, Dec(5, 0), 3>>, <<0, Dec(5, 0), 3>>,
     <<1, Dec(15, 2), 5>>, <<0, Dec(15, 2), 5>>,
     <<1, Dec(125, 3), 4>>, <<0, Dec(125, 3), 4>>}

ChildPool ==
    {TakePic(<<Word("MAGPRE"), Dec(50, 0)>>, Timedelta(-5000000),
             Num("0.001"), Num("8.0"), Num("100"), <<Txt("corona")>>),
     Play(<<Word("C2")>>, Timedelta(0), Txt("c2.mp3"), <<Txt("contact")>>),
     TakePic(<<Word("MAGPOST"), Dec(20, 0)>>, None,
             Num("0.001"), Num("8.0"), Num("100"), <<Txt("beads")>>)}

LoopPool ==
    {[l EXCEPT !.commands = cs] :
        l \in {ForVarLoop(a[1], a[2], a[3]) : a \in VarArgs}
              \cup {ForIterLoop(a[1], a[2], a[3]) : a \in IterArgs},
        cs \in SeqsUpTo(ChildPool, MaxChildren)}

GenEvents ==
    EventManager(EventTimes,
                 Readings(<<Dec(0, 3), Dec(500, 3), Dec(1000, 3)>>, 300000, 0),
                 Readings(<<Dec(500, 3), Dec(0, 3)>>, 300000, 3),
                 None)

\* `while value < self.end:`; with no commands the body does nothing and
\* the loop comes back to the test with the same value
ForVarLoop_while ==
    /\ genPc = "test" /\ loop.type = "var"
    /\ IF FLess(value, loop.end)
       THEN IF loop.commands = <<>>
            THEN UNCHANGED <<genPc, childI>>
            ELSE genPc' = "body" /\ childI' = 1
       ELSE genPc' = "done" /\ UNCHANGED childI
    /\ UNCHANGED <<loop, value, iterI, genOut, notGen>>

\* one pass through the body of `for c in self.commands:`, which ends with
\* `value += self.step`
ForVarLoop_body ==
    /\ genPc = "body" /\ loop.type = "var"
    /\ \E more \in {ForVarLoop_child(loop.commands[childI], evm, value)} :
       IF more.kind = "raised"
       THEN genPc' = "raised" /\ UNCHANGED <<value, childI, genOut>>
       ELSE /\ genOut' = genOut \o more.list
            /\ value' = FAdd(value, loop.step)
            /\ IF childI < Len(loop.commands)
               THEN childI' = childI + 1 /\ UNCHANGED genPc
               ELSE childI' = 1 /\ genPc' = "test"
    /\ UNCHANGED <<loop, iterI, notGen>>

\* `for i in range(self.iters):`
ForIterLoop_for ==
    /\ genPc = "test" /\ loop.type = "iter"
    /\ IF iterI < loop.iters
       THEN IF loop.commands = <<>>
            THEN genPc' = "advance" /\ UNCHANGED childI
            ELSE genPc' = "body" /\ childI' = 1
       ELSE genPc' = "done" /\ UNCHANGED childI
    /\ UNCHANGED <<loop, value, iterI, genOut, notGen>>

\* one pass through the body of `for c in self.commands:`
ForIterLoop_body ==
    /\ genPc = "body" /\ loop.type = "iter"
    /\ \E more \in {ForIterLoop_child(loop.commands[childI], evm, value,
                                        iterI)} :
       IF more.kind = "raised"
       THEN genPc' = "raised" /\ UNCHANGED <<childI, genOut>>
       ELSE /\ genOut' = genOut \o more.list
            /\ IF childI < Len(loop.commands)
               THEN childI' = childI + 1 /\ UNCHANGED genPc
               ELSE childI' = 1 /\ genPc' = "advance"
    /\ UNCHANGED <<loop, value, iterI, notGen>>

\* `value -= self.delay` (kind 0) or `value += self.delay`, and the next i
ForIterLoop_advance ==
    /\ genPc = "advance" /\ loop.type = "iter"
    /\ value' = FAdd(value, IF loop.kind = 0 THEN FNeg(loop.delay)
                             ELSE loop.delay)
    /\ iterI' = iterI + 1
    /\ genPc' = "test"
    /\ UNCHANGED <<loop, childI, genOut, notGen>>

InitGen ==
    /\ loop \in LoopPool
    /\ value = IF loop.type = "var" THEN loop.start ELSE FZero
    /\ iterI = 0 /\ childI = 1 /\ genOut = <<>> /\ genPc = "test"
    /\ evm = GenEvents /\ query = <<>> /\ answer = [kind |-> "idle"]
    /\ SeqIdle /\ ExecIdle /\ ParseIdle /\ WorkIdle /\ MagIdle /\ ScriptIdle /\ ArgIdle

NextGen ==
    \/ ForVarLoop_while
    \/ ForVarLoop_body
    \/ ForIterLoop_for
    \/ ForIterLoop_body
    \/ ForIterLoop_advance

SpecGen == InitGen /\ [][NextGen]_vars

(***************************************************************************)
(* C5.  ForVarLoop.generate_actions on a loop with exactly one child and   *)
(* step > 0 produces exactly one Action for each value start, start+step,  *)
(* start+2*step, ... that is strictly less than end, in increasing value   *)
(* order, and no Action for any value >= end.                              *)
(*                                                                         *)
(* The values are those of the decimal numbers written in the script; the  *)
(* value an Action was generated for is the one in its " (Mag. v%)"        *)
(* suffix, which is also the magnitude its time was resolved at.           *)
(***************************************************************************)
\* the values start + k * step below end, in thousandths, in increasing order
ValuesBelowEnd(args) ==
    LET n == Cardinality({k \in 0..Thousandths(args[3]) :
                 Thousandths(args[1]) + (k * Thousandths(args[2]))
                     < Thousandths(args[3])}) IN
    [k \in 1..n |-> Thousandths(args[1]) + ((k - 1) * Thousandths(args[2]))]

\* the value in the last suffix of the comment of an Action, in thousandths
ValueOf(action) == Thousandths(action.comment[Len(action.comment)].var)

C5_OneActionPerValue ==
    (/\ genPc = "done" /\ loop.type = "var" /\ Len(loop.commands) = 1
     /\ Thousandths(loop.args[2]) > 0)
    => /\ Len(genOut) = Len(ValuesBelowEnd(loop.args))
       /\ \A i \in 1..Len(genOut) :
            /\ ValueOf(genOut[i]) = ValuesBelowEnd(loop.args)[i]
            /\ ValueOf(genOut[i]) < Thousandths(loop.args[3])

(***************************************************************************)
(* C21.  ForVarLoop.generate_actions on a loop with k children and         *)
(* step > 0 generates, for every value v of start, start+step, ... below   *)
(* end (values outermost, children innermost in child order), one Action   *)
(* per child resolved under the override event built from that v: k times  *)
(* the number of such values Actions, none of them for a value >= end.     *)
(***************************************************************************)
C21_EveryChildAtEveryValue ==
    (/\ genPc = "done" /\ loop.type = "var" /\ Len(loop.commands) >= 1
     /\ Thousandths(loop.args[2]) > 0)
    => /\ Len(genOut) = Len(loop.commands) * Len(ValuesBelowEnd(loop.args))
       /\ \A i \in 1..Len(ValuesBelowEnd(loop.args)) :
            \A k \in 1..Len(loop.commands) :
               /\ ValueOf(genOut[((i - 1) * Len(loop.commands)) + k])
                      = ValuesBelowEnd(loop.args)[i]
               /\ genOut[((i - 1) * Len(loop.commands)) + k].comment
                      = loop.commands[k].comment
                        \o <<MagSuffix(Dec(ValuesBelowEnd(loop.args)[i]
                                             \div 100, 1))>>
       /\ \A j \in 1..Len(genOut) :
            ValueOf(genOut[j]) < Thousandths(loop.args[3])

(***************************************************************************)
(* C27.  ForVarLoop.generate_actions terminates for every loop with        *)
(* step > 0, whatever the number of its children, a loop block with no     *)
(* children included, for which it returns an empty list: as long as it    *)
(* has neither returned nor raised, it has a step to take that changes its *)
(* state, and a loop without children ends with no Action.                 *)
(***************************************************************************)
C27_ForVarLoopTerminates ==
    (loop.type = "var" /\ Thousandths(loop.args[2]) > 0)
    => /\ genPc \notin {"done", "raised"} => ENABLED (NextGen /\ vars' # vars)
       /\ (genPc = "done" /\ loop.commands = <<>>) => genOut = <<>>

(***************************************************************************)
(* C6.  ForIterLoop.generate_actions with n iterations and a delay d that  *)
(* is a whole number of centiseconds produces, for each iteration i in     *)
(* 0..n-1 in order and each child in child order, one Action whose time is *)
(* the child's base time + i*d when the direction is forward (kind # 0)    *)
(* and base time - i*d when backward (kind = 0), with the comment suffixed *)
(* by the iteration number i+1; the number of Actions is n times the       *)
(* number of children.                                                     *)
(***************************************************************************)
\* the time of the Action a child generates on its own
BaseTime(c) == get_time(evm, c.event).t + c.offset.us

\* the delay written in the script, in microseconds, signed by direction
SignedDelay == (IF loop.kind = 0 THEN -1 ELSE 1) * Thousandths(loop.args[2]) * 1000

\* the delay written in the script is a whole number of centiseconds
WholeCentiseconds == Thousandths(loop.args[2]) % 10 = 0

C6_IterationTimes ==
    (genPc = "done" /\ loop.type = "iter" /\ WholeCentiseconds)
    => /\ Len(genOut) = loop.iters * Len(loop.commands)
       /\ \A i \in 0..loop.iters - 1 : \A k \in 1..Len(loop.commands) :
            /\ genOut[(i * Len(loop.commands)) + k].time
                   = BaseTime(loop.commands[k]) + (i * SignedDelay)
            /\ genOut[(i * Len(loop.commands)) + k].comment
                   = loop.commands[k].comment \o <<IterSuffix(i + 1)>>

(***************************************************************************)
(* C22.  In ForIterLoop.generate_actions the shift applied in iteration i  *)
(* is the running offset, i times the delay (negated for the backward      *)
(* direction), truncated toward zero to a whole number of centiseconds: it *)
(* is a multiple of 10 ms and its absolute value never exceeds that of the *)
(* untruncated running offset.                                             *)
(***************************************************************************)
\* i times the delay written in the script, in microseconds
RunningOffset(i) == i * SignedDelay

\* us truncated toward zero to a multiple of 10 ms
TruncatedToCentiseconds(us) ==
    (IF us < 0 THEN -1 ELSE 1) * ((Abs(us) \div 10000) * 10000)

\* what was added to the time of child k in iteration i
AppliedShift(i, k) ==
    genOut[(i * Len(loop.commands)) + k].time - BaseTime(loop.commands[k])

C22_ShiftTruncated ==
    (genPc = "done" /\ loop.type = "iter")
    => \A i \in 0..loop.iters - 1 : \A k \in 1..Len(loop.commands) :
          /\ AppliedShift(i, k) = TruncatedToCentiseconds(RunningOffset(i))
          /\ AppliedShift(i, k) % 10000 = 0
          /\ Abs(AppliedShift(i, k)) <= Abs(RunningOffset(i))

(***************************************************************************)
(* The script compiler (sem/script.py, ScriptParser).                      *)
(*                                                                         *)
(* A line of a script is blank, a comment, or the list of its fields (the  *)
(* parts of line.split(',')).  A field is a word Word(s), a decimal number *)
(* Dec(n, d), a text "a:b:c" Colon(<<a, b, c>>) or "a/b" Slash(<<a, b>>)   *)
(* of such parts, a file name File(stem, ext); the event field is the list *)
(* of its words and the comment field the list of its parts, as commands   *)
(* hold them.  float(x) accepts the decimal numbers, int(x) those without  *)
(* a fraction; both raise ValueError on anything else.                     *)
(***************************************************************************)
MaxLines == 3        \* most lines of a script

Fields(args) == [line |-> "fields", args |-> args]
CommentLine == [line |-> "comment"]
BlankLine == [line |-> "blank"]

Colon(parts) == [colon |-> parts]
Slash(parts) == [slash |-> parts]
File(stem, ext) == [stem |-> stem, ext |-> ext]

IsInt(field) == IsNumber(field) /\ field.d = 0
IsRaised(x) == DOMAIN x = {"kind", "exc"}

\* time_str.split(':') and shutter_str.split('/', maxsplit=2)
SplitColon(field) == IF DOMAIN field = {"colon"} THEN field.colon ELSE <<field>>
SplitSlash(field) == IF DOMAIN field = {"slash"} THEN field.slash ELSE <<field>>

\* make_delta of parse_time_delta: hours, minutes and seconds with at most
\* three decimal places make a whole number of microseconds
make_delta(sign_str, hh, mm, ss) ==
    Timedelta((IF sign_str = Word("-") THEN -1 ELSE 1)
              * 1000 * ((3600 * Thousandths(hh)) + (60 * Thousandths(mm))
                        + Thousandths(ss)))

\* parse_time_delta: a text of one component, or of more than three, falls
\* through the match and the function returns None
parse_time_delta(sign_str, time_str) ==
    LET components == SplitColon(time_str) IN
    IF \E i \in DOMAIN components : ~IsNumber(components[i])
    THEN Raised("RuntimeError")
    ELSE IF Len(components) = 3
    THEN make_delta(sign_str, components[1], components[2], components[3])
    ELSE IF Len(components) = 2
    THEN make_delta(sign_str, Dec(0, 0), components[1], components[2])
    ELSE None

\* parse_shutter
parse_shutter(shutter_str) ==
    IF \E i \in DOMAIN SplitSlash(shutter_str) :
          ~IsNumber(SplitSlash(shutter_str)[i])
    THEN Raised("ValueError")
    ELSE IF Len(SplitSlash(shutter_str)) = 2
    THEN IF SplitSlash(shutter_str)[2].n = 0 THEN Raised("ZeroDivisionError")
         ELSE FDiv(float(SplitSlash(shutter_str)[1]),
                   float(SplitSlash(shutter_str)[2]))
    ELSE IF Len(SplitSlash(shutter_str)) = 1
    THEN float(SplitSlash(shutter_str)[1])
    ELSE Raised("RuntimeError")

\* ForVarLoop.__init__ on the fields after FOR,(VAR)
ForVarLoop_init(args) ==
    IF Len(args) # 3 \/ \E i \in DOMAIN args : ~IsNumber(args[i])
    THEN Raised("ValueError")
    ELSE ForVarLoop(args[1], args[2], args[3])

\* ForIterLoop.__init__ on the fields after FOR,(INTERVALOMETER)
ForIterLoop_init(args) ==
    IF Len(args) # 3 THEN Raised("ValueError")
    ELSE IF ~IsInt(args[1]) \/ ~IsNumber(args[2]) \/ ~IsInt(args[3])
    THEN Raised("ValueError")
    ELSE ForIterLoop(args[1].n, args[2], args[3].n)

\* ForLoopEnd.__init__ takes any fields
ForLoopEnd == [cmd |-> "ENDFOR"]

\* TakePic.__init__ from the parsed offset and shutter on
TakePic_parsed(args, offset, shutter_sec) ==
    IF IsRaised(offset) THEN offset
    ELSE IF IsRaised(shutter_sec) THEN shutter_sec
    ELSE IF ~IsNumber(args[6]) \/ ~IsInt(args[7]) THEN Raised("ValueError")
    ELSE TakePic(args[1], offset, shutter_sec, float(args[6]), args[7].n,
                 args[12])

\* TakePic.__init__ on the fields after TAKEPIC: (event, sign, offset,
\* camera, shutter, aperture, iso, burst, quality, size, incremental,
\* comment)
TakePic_init(args) ==
    IF Len(args) # 12 THEN Raised("ValueError")
    ELSE TakePic_parsed(args, parse_time_delta(args[2], args[3]),
                        parse_shutter(args[5]))

\* Play.__init__ on the fields after PLAY: (event, sign, offset, file, 7
\* unused fields, comment); the extension of the file becomes .mp3
Play_init(args) ==
    IF Len(args) # 12 THEN Raised("ValueError")
    ELSE IF IsRaised(parse_time_delta(args[2], args[3]))
    THEN parse_time_delta(args[2], args[3])
    ELSE Play(args[1], parse_time_delta(args[2], args[3]),
              File(args[4].stem, "mp3"), args[12])

\* ScriptParser._make_command on the fields of the line
ScriptParser_make_command(args) ==
    IF Len(args) >= 2 /\ args[1] = Word("FOR") /\ args[2] = Word("(VAR)")
    THEN ForVarLoop_init(SubSeq(args, 3, Len(args)))
    ELSE IF Len(args) >= 2 /\ args[1] = Word("FOR")
            /\ args[2] = Word("(INTERVALOMETER)")
    THEN ForIterLoop_init(SubSeq(args, 3, Len(args)))
    ELSE IF args[1] = Word("ENDFOR") THEN ForLoopEnd
    ELSE IF args[1] = Word("TAKEPIC") THEN TakePic_init(Tail(args))
    ELSE IF args[1] = Word("PLAY") THEN Play_init(Tail(args))
    ELSE Raised("RuntimeError")

\* is_nestable: True for the two loop commands
is_nestable(command) == "type" \in DOMAIN command

\* variant of add_command that lets a loop hold a loop
add_command_nesting(top, command) ==
    IF command = ForLoopEnd THEN [done |-> TRUE, top |-> top]
    ELSE [done |-> FALSE, top |-> [top EXCEPT !.commands = Append(@, command)]]

\* add_command with a fault: the ENDFOR marker is kept among the children
add_command_keeping_end(top, command) ==
    IF is_nestable(command) THEN Raised("ValueError")
    ELSE [done |-> command = ForLoopEnd,
          top |-> [top EXCEPT !.commands = Append(@, command)]]

\* ForVarLoop.add_command / ForIterLoop.add_command: what it returns and the
\* loop it leaves, or what it raises
add_command(top, command) ==
    IF is_nestable(command) THEN Raised("ValueError")
    ELSE IF command = ForLoopEnd THEN [done |-> TRUE, top |-> top]
    ELSE [done |-> FALSE, top |-> [top EXCEPT !.commands = Append(@, command)]]

\* ScriptParser_add_command with a fault: a command given to the open loop
\* is added to Script.commands as well
ScriptParser_add_command_twice(command) ==
    IF stack # <<>>
    THEN \E r \in {add_command(commands[stack[Len(stack)]], command)} :
           IF IsRaised(r)
           THEN /\ status' = "failed" /\ raised' = r.exc
                /\ UNCHANGED <<commands, stack>>
           ELSE /\ commands' = IF r.done
                               THEN [commands EXCEPT ![stack[Len(stack)]] = r.top]
                               ELSE Append([commands EXCEPT
                                              ![stack[Len(stack)]] = r.top],
                                           command)
                /\ stack' = IF r.done THEN SubSeq(stack, 1, Len(stack) - 1)
                            ELSE stack
                /\ UNCHANGED <<status, raised>>
    ELSE /\ stack' = IF is_nestable(command)
                     THEN Append(stack, Len(commands) + 1) ELSE stack
         /\ commands' = Append(commands, command)
         /\ UNCHANGED <<status, raised>>

\* ScriptParser._add_command.  The loop on the stack is the object held in
\* Script.commands: a child added to it shows there.
ScriptParser_add_command(command) ==
    IF stack # <<>>
    THEN \E r \in {add_command(commands[stack[Len(stack)]], command)} :
           IF IsRaised(r)
           THEN /\ status' = "failed" /\ raised' = r.exc
                /\ UNCHANGED <<commands, stack>>
           ELSE /\ commands' = [commands EXCEPT ![stack[Len(stack)]] = r.top]
                /\ stack' = IF r.done THEN SubSeq(stack, 1, Len(stack) - 1)
                            ELSE stack
                /\ UNCHANGED <<status, raised>>
    ELSE /\ stack' = IF is_nestable(command)
                     THEN Append(stack, Len(commands) + 1) ELSE stack
         /\ commands' = Append(commands, command)
         /\ UNCHANGED <<status, raised>>

(***************************************************************************)
(* The lines of the model's scripts.                                       *)
(***************************************************************************)
TakePicLine(sign, offset, shutter) ==
    Fields(<<Word("TAKEPIC"), <<Word("C2")>>, sign, offset, Word("cam"),
             shutter, Dec(8, 0), Dec(100, 0), Word(""), Word(""), Word(""),
             Word(""), <<Txt("corona")>>>>)

LinePool ==
    {Fields(<<Word("FOR"), Word("(VAR)"), Dec(0, 0), Dec(1, 0), Dec(3, 0)>>),
     Fields(<<Word("FOR"), Word("(INTERVALOMETER)"), Dec(1, 0), Dec(5, 0),
              Dec(3, 0)>>),
     Fields(<<Word("ENDFOR")>>),
     TakePicLine(Word("-"), Colon(<<Dec(0, 0), Dec(5, 0)>>),
                 Slash(<<Dec(1, 0), Dec(1000, 0)>>)),
     TakePicLine(Word("+"), Dec(5, 0), Slash(<<Dec(1, 0), Dec(1000, 0)>>)),
     TakePicLine(Word("+"), Colon(<<Dec(0, 0), Dec(0, 0), Dec(5, 0)>>),
                 Word("fast")),
     Fields(<<Word("PLAY"), <<Word("MAX")>>, Word("+"),
              Colon(<<Dec(0, 0), Dec(0, 0)>>), File("totality", "wav"),
              Word(""), Word(""), Word(""), Word(""), Word(""), Word(""),
              Word(""), <<Txt("maximum")>>>>),
     Fields(<<Word("BEEP"), Dec(1, 0)>>),
     Fields(<<Word("FOR"), Word("(VAR)"), Dec(0, 0), Dec(1, 0)>>),
     Fields(<<Word("FOR"), Word("(INTERVALOMETER)"), Dec(1, 0), Dec(5, 1),
              Dec(25, 1)>>),
     CommentLine,
     BlankLine}

\* One pass through the body of `for line in file:` of _parse_script.  An
\* exception leaves the loop and the function: nothing is returned.
ScriptParser_parse_line(line) ==
    /\ status = "parsing" /\ lineNo < MaxLines
    /\ lineNo' = lineNo + 1
    /\ lastLine' = line
    /\ prevParse' = [commands |-> commands, stack |-> stack]
    /\ IF line.line # "fields"
       THEN UNCHANGED <<commands, stack, status, raised>>
       ELSE \E command \in {ScriptParser_make_command(line.args)} :
              IF IsRaised(command)
              THEN /\ status' = "failed" /\ raised' = command.exc
                   /\ UNCHANGED <<commands, stack>>
              ELSE ScriptParser_add_command(command)
    /\ UNCHANGED notParse

\* `return self.script` at the end of the file
ScriptParser_return ==
    /\ status = "parsing"
    /\ status' = "done"
    /\ UNCHANGED <<commands, stack, raised, lineNo, lastLine, prevParse, notParse>>

InitParse ==
    /\ commands = <<>> /\ stack = <<>> /\ status = "parsing" /\ raised = "none"
    /\ lineNo = 0 /\ lastLine = NoLine
    /\ prevParse = [commands |-> <<>>, stack |-> <<>>]
    /\ SeqIdle /\ ExecIdle /\ GenIdle /\ EvtIdle /\ WorkIdle /\ MagIdle /\ ScriptIdle /\ ArgIdle

NextParse ==
    \/ \E line \in LinePool : ScriptParser_parse_line(line)
    \/ ScriptParser_return

SpecParse == InitParse /\ [][NextParse]_vars

(***************************************************************************)
(* C4.  When the script compiler meets an ENDFOR line while no loop is     *)
(* open (parser stack empty), compilation fails with an error at that      *)
(* line: parsing does not complete and no command list containing that     *)
(* ENDFOR is returned.                                                     *)
(***************************************************************************)
IsEndfor(line) == line.line = "fields" /\ line.args[1] = Word("ENDFOR")

C4_LoneEndforFails ==
    (IsEndfor(lastLine) /\ prevParse.stack = <<>>)
    => status = "failed" /\ commands = prevParse.commands

(***************************************************************************)
(* C9.  For every script line that is neither blank nor a comment, if a    *)
(* field is malformed (including a signed offset that is not of the form   *)
(* mm:ss or hh:mm:ss) the compiler raises an error at that line and        *)
(* returns no Script; it never constructs a command with a missing or      *)
(* absent field value.                                                     *)
(***************************************************************************)
\* a TAKEPIC or PLAY line with all its fields
IsLeafLine(line) ==
    /\ line.line = "fields" /\ Len(line.args) = 13
    /\ line.args[1] \in {Word("TAKEPIC"), Word("PLAY")}

\* the commands of the script that are not loops, those inside loops included
LeafCommands ==
    {commands[i] : i \in {j \in DOMAIN commands : ~is_nestable(commands[j])}}
    \cup UNION {{commands[i].commands[k] : k \in DOMAIN commands[i].commands} :
                  i \in {j \in DOMAIN commands : is_nestable(commands[j])}}

C9_MalformedOffsetFails ==
    /\ (IsLeafLine(lastLine) /\ Len(SplitColon(lastLine.args[4])) \notin {2, 3})
       => status = "failed"
    /\ \A c \in LeafCommands : "offset" \in DOMAIN c => c.offset # None

(***************************************************************************)
(* C10.  When the script compiler meets a loop-opening command (FOR (VAR)  *)
(* or FOR (INTERVALOMETER)) while a loop is already open, compilation      *)
(* fails with an error and the inner loop is added neither to the open     *)
(* loop's children nor to the top-level command list.                      *)
(***************************************************************************)
IsLoopOpening(line) ==
    /\ line.line = "fields" /\ Len(line.args) >= 2
    /\ line.args[1] = Word("FOR")
    /\ line.args[2] \in {Word("(VAR)"), Word("(INTERVALOMETER)")}

C10_NoNestedLoop ==
    (IsLoopOpening(lastLine) /\ prevParse.stack # <<>>)
    => /\ status = "failed"
       /\ commands = prevParse.commands
       /\ stack = prevParse.stack

\* a well-formed FOR line met inside a loop that already holds a command
C10_Witness ==
    /\ IsLoopOpening(lastLine) /\ ~IsRaised(ScriptParser_make_command(lastLine.args))
    /\ prevParse.stack # <<>>
    /\ prevParse.commands[prevParse.stack[1]].commands # <<>>
    /\ status = "failed" /\ raised = "ValueError"
    /\ commands = prevParse.commands

(***************************************************************************)
(* C23.  When the script compiler accepts a leaf command (TAKEPIC or       *)
(* PLAY): if a loop is open the leaf is appended to the end of that loop's *)
(* children and the top-level command list is otherwise unchanged; if no   *)
(* loop is open it is appended to the end of the top-level list and no     *)
(* loop's children change.  After an ENDFOR closes the loop, later leaves  *)
(* go to the top-level list again.                                         *)
(***************************************************************************)
\* the last line was consumed without an exception
Accepted == status \in {"parsing", "done"}

C23_LeafGoesToOpenLoopOnly ==
    /\ (IsLeafLine(lastLine) /\ Accepted /\ prevParse.stack # <<>>)
       => /\ commands =
               [prevParse.commands EXCEPT
                  ![prevParse.stack[Len(prevParse.stack)]].commands =
                      Append(@, ScriptParser_make_command(lastLine.args))]
          /\ stack = prevParse.stack
    /\ (IsLeafLine(lastLine) /\ Accepted /\ prevParse.stack = <<>>)
       => /\ commands = Append(prevParse.commands,
                               ScriptParser_make_command(lastLine.args))
          /\ stack = <<>>
    /\ (IsEndfor(lastLine) /\ Accepted /\ prevParse.stack # <<>>)
       => stack = <<>> /\ commands = prevParse.commands

\* a leaf accepted into the open loop of a script that starts with a leaf
C23_Witness ==
    /\ IsLeafLine(lastLine) /\ Accepted /\ prevParse.stack = <<2>>
    /\ ~is_nestable(commands[1])
    /\ Len(commands) = 2 /\ Len(commands[2].commands) = 1

(***************************************************************************)
(* C24.  After any sequence of script lines the parser stack holds at most *)
(* one open loop, every loop block is an element of the top-level command  *)
(* list (the open one included), and the children of every loop block are  *)
(* leaf commands only: never a loop, never a loop-end marker.              *)
(***************************************************************************)
LoopBlocks == {j \in DOMAIN commands : is_nestable(commands[j])}

C24_OneOpenLoopLeafChildren ==
    /\ Len(stack) <= 1
    /\ \A k \in DOMAIN stack : stack[k] \in LoopBlocks
    /\ \A j \in LoopBlocks : \A k \in DOMAIN commands[j].commands :
          /\ ~is_nestable(commands[j].commands[k])
          /\ commands[j].commands[k] # ForLoopEnd
          /\ commands[j].commands[k].cmd \in {"TAKEPIC", "PLAY"}

\* a loop block that holds a child has just been closed
C24_Witness ==
    /\ IsEndfor(lastLine) /\ Accepted /\ prevParse.stack = <<1>>
    /\ stack = <<>> /\ Len(commands) = 1 /\ Len(commands[1].commands) = 1

(***************************************************************************)
(* C30.  Whenever the script compiler finishes and returns a Script, no    *)
(* loop is left open: the parser stack is empty at the end of the input.   *)
(* A script that ends inside an open loop is rejected.                     *)
(***************************************************************************)
C30_NoLoopLeftOpen == status = "done" => stack = <<>>

(***************************************************************************)
(* sem/event.py: EventParser.parse.  A line of the timing file is the      *)
(* record of what the regular expression that matches it captures:         *)
(*   "contact_a"  `1st Contact <date> <time>`   (re_cX_a)                  *)
(*   "contact_b"  `C1 <date> <time>`            (re_cX_b)                  *)
(*   "max"        `Max Eclipse <date> <time>`   (re_max)                   *)
(*   "maxmag"     `Magnitude at maximum ... m`  (re_maxmag)                *)
(*   "magn"       `<time> x y m`                (re_magn), a reading       *)
(* Times are microseconds, as in the event table; the date of a reading is *)
(* default_date, which only a contact_a line sets.                         *)
(***************************************************************************)
MaxFall == 2         \* most readings after the peak

NegInf == [kind |-> "-inf"]
Date == [kind |-> "date"]

\* the locals of parse before the first line
EventParser_parse_locals ==
    [events |-> <<>>, prev_mag |-> NegInf, pre_mags |-> <<>>,
     post_mags |-> <<>>, magnitudes |-> "pre_mags", max_magnitude |-> None,
     default_date |-> None]

\* the truth value of prev_mag: None is false, and so is 0.0
Truthy(prev_mag) == prev_mag # None /\ prev_mag # FZero

\* `prev_mag and mag < prev_mag`
ShiftedToPost(mag, prev_mag) ==
    Truthy(prev_mag) /\ prev_mag # NegInf /\ FLess(mag, prev_mag)

\* magnitudes.append((mag, date)) on the list `magnitudes` names
Appended(l, which, entry) ==
    IF which = "post_mags" THEN [l EXCEPT !.post_mags = Append(@, entry)]
    ELSE [l EXCEPT !.pre_mags = Append(@, entry)]

\* the branch of a reading, from `mag = float(mag)` on
EventParser_parse_magn(l, line, mag) ==
    IF ShiftedToPost(mag, l.prev_mag)
    THEN Appended([l EXCEPT !.magnitudes = "post_mags", !.prev_mag = None],
                  "post_mags", Entry(line.lit, line.time))
    ELSE IF Truthy(l.prev_mag)
    THEN Appended([l EXCEPT !.prev_mag = mag], l.magnitudes,
                  Entry(line.lit, line.time))
    ELSE Appended(l, l.magnitudes, Entry(line.lit, line.time))

\* the body of `for line in file`: the locals after the line, or what the
\* line raises (datetime.combine(None, time) is a TypeError)
EventParser_parse_body(l, line) ==
    IF line.kind = "contact_a"
    THEN [l EXCEPT !.events = (line.event :> line.time) @@ @,
                   !.default_date = Date]
    ELSE IF line.kind = "contact_b"
    THEN [l EXCEPT !.events = (line.event :> line.time) @@ @]
    ELSE IF line.kind = "max"
    THEN [l EXCEPT !.events = ("MAX" :> line.time) @@ @]
    ELSE IF line.kind = "maxmag"
    THEN [l EXCEPT !.max_magnitude = line.lit]
    ELSE IF l.default_date = None THEN Raised("TypeError")
    ELSE EventParser_parse_magn(l, line, float(line.lit))

\* The timing files of the model: the contacts, the maximum and its
\* magnitude, then readings that rise to a peak and fall; and a file whose
\* contacts are written C1, C2, ...
MagnLines(lits) ==
    [k \in 1..Len(lits) |->
        [kind |-> "magn", time |-> k * 300000, lit |-> lits[k]]]

\* the falls from a peak of `peak` thousandths
Falls(peak) ==
    {g \in SeqsUpTo(MagLits, MaxFall) :
        \A i \in 1..Len(g) :
            /\ Thousandths(g[i]) < peak
            /\ i > 1 => Thousandths(g[i]) <= Thousandths(g[i - 1])}

RiseFall ==
    UNION {{r \o f : f \in Falls(Thousandths(r[Len(r)]))} :
             r \in RisingLits \ {<<>>}}

TimingFiles ==
    {<<[kind |-> "contact_a", event |-> "C1", time |-> 0],
       [kind |-> "max", time |-> 2500000],
       [kind |-> "maxmag", lit |-> Dec(1000, 3)]>> \o MagnLines(m) :
        m \in RiseFall}
    \cup {<<[kind |-> "contact_b", event |-> "C1", time |-> 0]>>
          \o MagnLines(<<Dec(300, 3)>>)}

\* one line of the file is read and handled
EventParser_parse_line ==
    /\ evStatus = "reading"
    /\ evPos < Len(evFile)
    /\ evPos' = evPos + 1
    /\ \E l \in {EventParser_parse_body(evLocals, evFile[evPos + 1])} :
          IF IsRaised(l)
          THEN evStatus' = "raised" /\ UNCHANGED evLocals
          ELSE evLocals' = l /\ UNCHANGED evStatus
    /\ UNCHANGED <<evFile, seqVars, execVars, parseVars, genVars, evtVars,
                   workVars, scriptVars,
                   argVars>>

\* the file is exhausted: return EventManager(events, pre_mags, post_mags,
\* max_magnitude)
EventParser_parse_return ==
    /\ evStatus = "reading"
    /\ evPos = Len(evFile)
    /\ evStatus' = "done"
    /\ evm' = EventManager(evLocals.events, evLocals.pre_mags,
                           evLocals.post_mags, evLocals.max_magnitude)
    /\ UNCHANGED <<evFile, evPos, evLocals, query, answer, seqVars, execVars,
                   parseVars, genVars, workVars, scriptVars,
                   argVars>>

InitMag ==
    /\ evFile \in TimingFiles
    /\ evPos = 0 /\ evLocals = EventParser_parse_locals
    /\ evStatus = "reading"
    /\ SeqIdle /\ ExecIdle /\ ParseIdle /\ GenIdle /\ EvtIdle /\ WorkIdle
    /\ ScriptIdle /\ ArgIdle

NextMag ==
    \/ EventParser_parse_line
    \/ EventParser_parse_return

SpecMag == InitMag /\ [][NextMag]_vars

(***************************************************************************)
(* C18.  For every timing file whose magnitude readings, in file order,    *)
(* rise to a peak and then fall, the tables of the EventManager that parse *)
(* returns are each non-decreasing in magnitude: the rising readings are   *)
(* the pre table, the falling readings the post table, stored reversed.    *)
(***************************************************************************)
ReadingsOf(file) == SelectSeq(file, LAMBDA line : line.kind = "magn")

\* the number of readings up to the peak: the longest prefix that rises
RiseLen(rd) ==
    Max({k \in 0..Len(rd) :
            \A i \in 1..k - 1 :
                Thousandths(rd[i].lit) <= Thousandths(rd[i + 1].lit)})

MagRising(tab) ==
    \A i \in 1..Len(tab) - 1 :
        Thousandths(tab[i].lit) <= Thousandths(tab[i + 1].lit)

SameReadings(tab, rd) ==
    /\ Len(tab) = Len(rd)
    /\ \A k \in 1..Len(rd) :
          tab[k].lit = rd[k].lit /\ tab[k].time = rd[k].time

C18_TablesNonDecreasing ==
    evStatus = "done" =>
        /\ MagRising(evm.pre_magnitudes)
        /\ MagRising(evm.post_magnitudes)
        /\ SameReadings(evm.pre_magnitudes,
                        SubSeq(ReadingsOf(evFile), 1,
                               RiseLen(ReadingsOf(evFile))))
        /\ SameReadings(Reverse(evm.post_magnitudes),
                        SubSeq(ReadingsOf(evFile),
                               RiseLen(ReadingsOf(evFile)) + 1,
                               Len(ReadingsOf(evFile))))

(***************************************************************************)
(* sem/script.py: Script.generate_sequence.  One step per pass through     *)
(* `for command in self.commands`; the generate_actions of a loop command  *)
(* runs as the loop expansion above, between its call and its return.      *)
(***************************************************************************)
MaxCommands == 2     \* most commands of a script

IsLoop(c) == "type" \in DOMAIN c

\* the datetime of an instant counted in microseconds from 00:00:00 of
\* day 1
datetime(us) ==
    DT(1 + (us \div 1000000) \div 86400, ((us \div 1000000) % 86400) \div 3600,
       ((us \div 1000000) % 3600) \div 60, (us \div 1000000) % 60,
       us % 1000000)

Timed(list) == [i \in 1..Len(list) |-> [list[i] EXCEPT !.time = datetime(@)]]

\* `more = command.generate_actions(self.events)` and
\* `actions.extend(more)` for a TakePic or Play command
Script_generate_sequence_leaf ==
    /\ scriptPc = "for" /\ commandI <= Len(scriptCommands)
    /\ ~IsLoop(scriptCommands[commandI])
    /\ \E more \in {generate_actions(scriptCommands[commandI], evm,
                                     scriptCommands[commandI].event)} :
          IF more.kind = "raised"
          THEN scriptPc' = "raised" /\ UNCHANGED <<commandI, scriptActions>>
          ELSE /\ scriptActions' = scriptActions \o more.list
               /\ commandI' = commandI + 1
               /\ UNCHANGED scriptPc
    /\ UNCHANGED <<scriptCommands, seqVars, execVars, parseVars, genVars,
                   evtVars, workVars, magVars, argVars>>

\* `command.generate_actions(self.events)` is entered for a loop command
Script_generate_sequence_call ==
    /\ scriptPc = "for" /\ commandI <= Len(scriptCommands)
    /\ IsLoop(scriptCommands[commandI])
    /\ loop' = scriptCommands[commandI]
    /\ value' = IF loop'.type = "var" THEN loop'.start ELSE FZero
    /\ iterI' = 0 /\ childI' = 1 /\ genOut' = <<>> /\ genPc' = "test"
    /\ scriptPc' = "loop"
    /\ UNCHANGED <<scriptCommands, commandI, scriptActions, seqVars, execVars,
                   parseVars, evtVars, workVars, magVars, argVars>>

\* the loop's generate_actions returns its list, which extends `actions`,
\* or raises, and then so does generate_sequence
Script_generate_sequence_extend ==
    /\ scriptPc = "loop" /\ genPc \in {"done", "raised"}
    /\ IF genPc = "raised"
       THEN scriptPc' = "raised" /\ UNCHANGED <<commandI, scriptActions, genVars>>
       ELSE /\ scriptActions' = scriptActions \o genOut
            /\ commandI' = commandI + 1
            /\ scriptPc' = "for"
            /\ loop' = [type |-> "none"] /\ value' = FZero
            /\ iterI' = 0 /\ childI' = 1 /\ genOut' = <<>> /\ genPc' = "idle"
    /\ UNCHANGED <<scriptCommands, seqVars, execVars, parseVars, evtVars,
                   workVars, magVars, argVars>>

\* `return Sequence(actions)`: Sequence.__init__ sorts the list
Script_generate_sequence_return ==
    /\ scriptPc = "for" /\ commandI = Len(scriptCommands) + 1
    /\ seqPhase = "new"
    /\ actions' = sorted(Timed(scriptActions))
    /\ seqInput' = Timed(scriptActions)
    /\ seqPhase' = "built"
    /\ scriptPc' = "done"
    /\ UNCHANGED <<csvfile, seqBefore, scriptCommands, commandI, scriptActions,
                   execVars, parseVars, genVars, evtVars, workVars, magVars, argVars>>

LeafPool ==
    {Play(<<Word("C2")>>, Timedelta(0), Txt("c2.mp3"), <<Txt("contact")>>),
     TakePic(<<Word("MAGPRE"), Dec(50, 0)>>, Timedelta(-5000000),
             Num("0.001"), Num("8.0"), Num("100"), <<Txt("corona")>>),
     TakePic(<<Word("SUNSET")>>, Timedelta(1000000),
             Num("0.001"), Num("8.0"), Num("100"), <<Txt("sunset")>>),
     Play(<<Word("FOO"), Dec(10, 0)>>, Timedelta(0), Txt("foo.mp3"),
          <<Txt("foo")>>),
     TakePic(<<Word("MAGPRE")>>, Timedelta(0),
             Num("0.001"), Num("8.0"), Num("100"), <<Txt("partial")>>)}

\* the children a ForVarLoop may hold (names of two words) and those a
\* ForIterLoop may hold
VarChildren == {c \in LeafPool : Len(c.event) = 2}
IterChildren == {c \in LeafPool : c.event[1] \in {Word("C2"), Word("SUNSET")}}

NonEmptySeqs(S, n) == SeqsUpTo(S, n) \ {<<>>}

CommandPool ==
    LeafPool
    \cup {[ForVarLoop(Dec(0, 0), Dec(1, 0), Dec(2, 0)) EXCEPT !.commands = cs] :
            cs \in NonEmptySeqs(VarChildren, MaxChildren)}
    \cup {[ForIterLoop(1, Dec(5, 0), 2) EXCEPT !.commands = cs] :
            cs \in NonEmptySeqs(IterChildren, MaxChildren)}

InitScript ==
    /\ scriptCommands \in SeqsUpTo(CommandPool, MaxCommands)
    /\ commandI = 1 /\ scriptActions = <<>> /\ scriptPc = "for"
    /\ evm = GenEvents /\ query = <<>> /\ answer = [kind |-> "idle"]
    /\ SeqIdle /\ ExecIdle /\ ParseIdle /\ GenIdle /\ WorkIdle /\ MagIdle
    /\ ArgIdle

NextScript ==
    \/ Script_generate_sequence_leaf
    \/ Script_generate_sequence_call
    \/ Script_generate_sequence_extend
    \/ Script_generate_sequence_return
    \/ ForVarLoop_while
    \/ ForVarLoop_body
    \/ ForIterLoop_for
    \/ ForIterLoop_body
    \/ ForIterLoop_advance

SpecScript == InitScript /\ [][NextScript]_vars

(***************************************************************************)
(* C19.  An event name that is neither a key of the instants table nor of  *)
(* the form MAGPRE p / MAGPOST p resolves to no time, and generating the   *)
(* Action of a command that refers to such a name fails: generate_sequence *)
(* never gets past that command, no Action of it is emitted, and no        *)
(* Sequence is produced.                                                   *)
(***************************************************************************)
UnknownEvent(em, name) ==
    /\ ~(Len(name) = 1 /\ ~IsNumber(name[1]) /\ name[1].w \in DOMAIN em.events)
    /\ ~(Len(name) = 2 /\ name[1] \in {Word("MAGPRE"), Word("MAGPOST")})

\* the name a command resolves: its own event or, as the child of a
\* ForVarLoop that holds `value`, the first word of its event and the value
ResolvedName(c, l, val) ==
    IF l.type = "var" THEN <<c.event[1], Format_04_1f(val)>> ELSE c.event

\* the names the command c of a script resolves first
NamesOf(c) ==
    IF IsLoop(c)
    THEN {ResolvedName(c.commands[j], c, c.start) :
            j \in {i \in 1..Len(c.commands) :
                     c.type = "var" => Len(c.commands[i].event) = 2}}
    ELSE {c.event}

RefersToUnknown(c) == \E name \in NamesOf(c) : UnknownEvent(evm, name)

\* the child whose pass appended the j-th entry of the loop's `actions`
ChildOfEntry(j) == loop.commands[((j - 1) % Len(loop.commands)) + 1]

C19_UnknownEventFails ==
    /\ \A k \in 1..Len(scriptCommands) :
          /\ \A name \in NamesOf(scriptCommands[k]) :
                UnknownEvent(evm, name) => get_time(evm, name) = None
          /\ RefersToUnknown(scriptCommands[k]) =>
                /\ commandI <= k
                /\ scriptPc # "done" /\ seqPhase = "new" /\ actions = <<>>
    /\ \A j \in 1..Len(genOut) :
          ~UnknownEvent(evm, ResolvedName(ChildOfEntry(j), loop, loop.start))

\* generate_sequence has raised at a TakePic or Play command of an unknown
\* event, after the commands before it gave their actions
C19_Witness ==
    /\ scriptPc = "raised" /\ scriptActions # <<>>
    /\ ~IsLoop(scriptCommands[commandI])
    /\ UnknownEvent(evm, scriptCommands[commandI].event)
    /\ get_time(evm, scriptCommands[commandI].event) = None

=============================================================================
